---- MODULE Spec2Model ----
(***************************************************************************)
(* Model of GPSSCAN (src/開発用GPSSCAN_new.py, class GPSScanApp): the      *)
(* photo list (photos_tree), the per-photo EXIF/coordinate dictionary      *)
(* (photo_gps_data), the control points (sim_points), the settings, and    *)
(* the handlers that assign, edit, release and auto-match photos.          *)
(*                                                                         *)
(* Strings are TLA+ strings; file names are built by concatenation as the  *)
(* code builds them.  Coordinates are integers (metres); a distance is     *)
(* kept as its square, so that "dist <= limit" is "d2 <= limit * limit".   *)
(* A Treeview cell holding "" is the empty string; a numeric cell is a     *)
(* one-element tuple <<n>> and an empty numeric cell is << >>.             *)
(* Identifiers of the model are strings that the Treeview returns as they  *)
(* were stored (no purely numeric text with leading zeros).                *)
(***************************************************************************)
EXTENDS Integers, Sequences, FiniteSets, TLC

VARIABLES
    sim_points,                   \* self.sim_points: sequence of points
    photos_tree,                  \* self.photos_tree rows, in get_children() order
    photo_gps_data,               \* self.photo_gps_data: photo name -> EXIF dict
    use_point_name,               \* self.use_point_name
    use_landscape_suffix,         \* self.use_landscape_suffix
    force_point_name_for_special, \* self.force_point_name_for_special
    use_arbitrary_coordinates,    \* self.use_arbitrary_coordinates
    use_gps_conversion,           \* self.use_gps_conversion
    coordinate_system,            \* self.coordinate_system (zone 1..19)
    landparcel_data,              \* self.landparcel_data: sequence of parcels
    lines,                        \* load_sim_points: the lines of the file read
    cursor,                       \* load_sim_points: the loop index i
    loading,                      \* load_sim_points is between open and EOF
    sim_load_message,             \* load_sim_file: the message box it ended with
    export_report                 \* rename_photos_to_new_folder: counts and copies

vars == <<sim_points, photos_tree, photo_gps_data, use_point_name,
          use_landscape_suffix, force_point_name_for_special,
          use_arbitrary_coordinates, use_gps_conversion, coordinate_system,
          landparcel_data, lines, cursor, loading, sim_load_message,
          export_report>>

settings == <<use_point_name, use_landscape_suffix, force_point_name_for_special>>
frame == <<use_arbitrary_coordinates, use_gps_conversion, coordinate_system>>
parser == <<landparcel_data, lines, cursor, loading>>
reports == <<sim_load_message, export_report>>

-----------------------------------------------------------------------------
(* Bounds and inputs *)

\* number of photo files in the folder that is loaded
NumPhotos == 2

\* the limits entered in the auto-match dialog (metres, 1.0 to 100.0)
Limits == {10, 15}

\* the landscape values of column 3, in ASCII: 遠景, 近景, 不明
Distant == "enkei"
Close == "kinkei"
Unknown == "fumei"

\* the marker tokens of reference points, in ASCII: 基準点, 引照点
MarkerKijun == "KIJUNTEN"
MarkerInsho == "INSHOTEN"

\* drag-and-drop accepts a point closer than this (metres)
DropLimit == 50

\* default zone of the constructor
DefaultZone == 9

\* classification thresholds of detect_coordinate_system_type
LocalLimit == 5000
PlaneLimit == 300000

-----------------------------------------------------------------------------
(* String helpers *)

\* Python: sub in s
Contains(s, sub) ==
    \E i \in 1..(Len(s) - Len(sub) + 1) : SubSeq(s, i, i + Len(sub) - 1) = sub

\* index of the last "." of s, 0 if there is none
LastDot(s) ==
    LET dots == {i \in 1..Len(s) : SubSeq(s, i, i) = "."}
    IN  IF dots = {} THEN 0 ELSE CHOOSE i \in dots : \A j \in dots : j <= i

\* os.path.splitext(filename)[1] for a plain file name: the text from the
\* last dot on, empty when there is no dot or only leading dots before it
SplitExt(filename) ==
    LET d == LastDot(filename)
    IN  IF d = 0 THEN ""
        ELSE IF \A i \in 1..(d - 1) : SubSeq(filename, i, i) = "." THEN ""
        ELSE SubSeq(filename, d, Len(filename))

\* str.strip() for blanks
RECURSIVE Strip(_)
Strip(s) ==
    IF Len(s) = 0 THEN s
    ELSE IF SubSeq(s, 1, 1) = " " THEN Strip(SubSeq(s, 2, Len(s)))
    ELSE IF SubSeq(s, Len(s), Len(s)) = " " THEN Strip(SubSeq(s, 1, Len(s) - 1))
    ELSE s

-----------------------------------------------------------------------------
(* Inputs: network files (as parsed point lists) and the photo folder *)

Point(num, name, x, y) == [num |-> num, name |-> name, X |-> x, Y |-> y]

\* a national-plane network: an ordinary point and a reference point.  Its
\* mean lies in no zone box, so the zone stays the configured one.
NetPlane == << Point("K1", "BM1", 250100, 10200),
               Point("K2", "KIJUNTEN-A", 250100, 10260) >>

Networks == {NetPlane}

\* EXIF of one photo file: gps = a GPS position is recorded
Exif(file, gps, lat, lon) == [file |-> file, gps |-> gps, lat |-> lat, lon |-> lon]

\* the files of the photo folder, in os.listdir order
FolderFiles == << Exif("a.jpg", TRUE, 250103, 10264),
                  Exif("b.jpg", FALSE, 0, 0),
                  Exif("c.png", TRUE, 250110, 10265),
                  Exif("d.jpg", TRUE, 250110, 10205) >>

Folder == SubSeq(FolderFiles, 1, NumPhotos)

\* pyproj Transformer EPSG:4326 -> EPSG:(6668 + zone): the model's positions
\* are given in the metres of the default zone, every other zone shifts them
Project(lat, lon, zone) ==
    <<lat + (zone - DefaultZone) * 1000, lon + (zone - DefaultZone) * 1000>>

-----------------------------------------------------------------------------
(* Photo records *)

\* extract_exif_data: the EXIF dict of a file under the current settings
ExtractExifData(e) ==
    LET conv == e.gps /\ use_gps_conversion
        xy == Project(e.lat, e.lon, coordinate_system)
    IN  [gps |-> e.gps,
         lat |-> e.lat, lon |-> e.lon,
         has_xy |-> conv,
         x_coord |-> IF conv THEN xy[1] ELSE 0,
         y_coord |-> IF conv THEN xy[2] ELSE 0]

\* load_photos: the dict stored for a file, with the original position
PhotoData(e) ==
    LET d == ExtractExifData(e)
    IN  [gps |-> d.gps, lat |-> d.lat, lon |-> d.lon,
         has_xy |-> d.has_xy, x_coord |-> d.x_coord, y_coord |-> d.y_coord,
         has_original |-> d.has_xy,
         original_x_coord |-> d.x_coord,
         original_y_coord |-> d.y_coord]

\* load_photos: the Treeview row inserted for a file
NewRow(e) ==
    LET d == ExtractExifData(e)
    IN  [orig |-> e.file,
         new |-> "",
         landscape |-> Unknown,
         xcol |-> IF d.has_xy /\ d.x_coord # 0 THEN <<d.x_coord>> ELSE << >>,
         ycol |-> IF d.has_xy /\ d.y_coord # 0 THEN <<d.y_coord>> ELSE << >>,
         matching |-> "",
         distance |-> << >>]

PhotoNames == {photos_tree[i].orig : i \in 1..Len(photos_tree)}

\* index of the first row whose column 0 is the photo name
RowOf(tree, photo) ==
    CHOOSE i \in 1..Len(tree) :
        /\ tree[i].orig = photo
        /\ \A j \in 1..(i - 1) : tree[j].orig # photo

-----------------------------------------------------------------------------
(* Coordinate frame *)

Abs(n) == IF n < 0 THEN -n ELSE n

RECURSIVE SeqMin(_), SeqMax(_), SeqSum(_)
SeqMin(s) == IF Len(s) = 1 THEN s[1]
             ELSE LET m == SeqMin(Tail(s)) IN IF s[1] < m THEN s[1] ELSE m
SeqMax(s) == IF Len(s) = 1 THEN s[1]
             ELSE LET m == SeqMax(Tail(s)) IN IF s[1] > m THEN s[1] ELSE m
SeqSum(s) == IF Len(s) = 0 THEN 0 ELSE s[1] + SeqSum(Tail(s))

\* variant of DetectCoordinateSystemType whose comparisons are not strict
DetectCoordinateSystemTypeInclusive(points) ==
    IF Len(points) = 0 THEN FALSE
    ELSE LET xs == [i \in 1..Len(points) |-> points[i].X]
             ys == [i \in 1..Len(points) |-> points[i].Y]
         IN  IF /\ Abs(SeqMax(xs)) <= LocalLimit /\ Abs(SeqMin(xs)) <= LocalLimit
                /\ Abs(SeqMax(ys)) <= LocalLimit /\ Abs(SeqMin(ys)) <= LocalLimit
             THEN TRUE
             ELSE IF /\ Abs(SeqMin(xs)) <= PlaneLimit /\ Abs(SeqMax(xs)) <= PlaneLimit
                     /\ Abs(SeqMin(ys)) <= PlaneLimit /\ Abs(SeqMax(ys)) <= PlaneLimit
             THEN FALSE
             ELSE TRUE

\* detect_coordinate_system_type: TRUE = arbitrary (local) frame
DetectCoordinateSystemType(points) ==
    IF Len(points) = 0 THEN FALSE
    ELSE LET xs == [i \in 1..Len(points) |-> points[i].X]
             ys == [i \in 1..Len(points) |-> points[i].Y]
             x_min == SeqMin(xs)
             x_max == SeqMax(xs)
             y_min == SeqMin(ys)
             y_max == SeqMax(ys)
         IN  IF /\ Abs(x_max) < LocalLimit /\ Abs(x_min) < LocalLimit
                /\ Abs(y_max) < LocalLimit /\ Abs(y_min) < LocalLimit
             THEN TRUE
             ELSE IF /\ Abs(x_min) < PlaneLimit /\ Abs(x_max) < PlaneLimit
                     /\ Abs(y_min) < PlaneLimit /\ Abs(y_max) < PlaneLimit
             THEN FALSE
             ELSE TRUE

\* system_ranges of detect_coordinate_system_number: <<x_lo, x_hi, y_lo, y_hi>>
SystemRanges ==
    [k \in 1..19 |->
        CASE k = 1 -> <<-150000, 150000, -150000, 100000>>
          [] k = 2 -> <<-250000, 50000, -150000, 100000>>
          [] k = 9 -> <<-150000, 200000, -150000, 150000>>
          [] k \in {14, 18} -> <<-200000, 200000, -200000, 200000>>
          [] OTHER -> <<-150000, 150000, -150000, 150000>>]

\* the mean of the points lies in the box of zone k
InBox(points, k) ==
    LET n == Len(points)
        sx == SeqSum([i \in 1..n |-> points[i].X])
        sy == SeqSum([i \in 1..n |-> points[i].Y])
    IN  /\ SystemRanges[k][1] * n <= sx /\ sx <= SystemRanges[k][2] * n
        /\ SystemRanges[k][3] * n <= sy /\ sy <= SystemRanges[k][4] * n

\* variant of DetectCoordinateSystemNumber that returns the last candidate
DetectCoordinateSystemNumberLast(points) ==
    IF Len(points) = 0 \/ \A k \in 1..19 : ~InBox(points, k) THEN 0
    ELSE CHOOSE k \in 1..19 :
            InBox(points, k) /\ \A j \in 1..19 : InBox(points, j) => j <= k

\* detect_coordinate_system_number: the first zone whose box holds the mean
\* of the points, 0 for None.  The mean is a quotient; a box test
\* lo <= sum / n <= hi is lo * n <= sum <= hi * n.
DetectCoordinateSystemNumber(points) ==
    IF Len(points) = 0 THEN 0
    ELSE LET n == Len(points)
             sx == SeqSum([i \in 1..n |-> points[i].X])
             sy == SeqSum([i \in 1..n |-> points[i].Y])
             candidates == {k \in 1..19 :
                              /\ SystemRanges[k][1] * n <= sx
                              /\ sx <= SystemRanges[k][2] * n
                              /\ SystemRanges[k][3] * n <= sy
                              /\ sy <= SystemRanges[k][4] * n}
         IN  IF candidates = {} THEN 0
             ELSE CHOOSE k \in candidates : \A j \in candidates : k <= j

-----------------------------------------------------------------------------
(* State after construction *)

Init ==
    /\ sim_points = << >>
    /\ photos_tree = << >>
    /\ photo_gps_data = << >>
    /\ use_point_name = FALSE
    /\ use_landscape_suffix = TRUE
    /\ force_point_name_for_special = TRUE
    /\ use_arbitrary_coordinates = FALSE
    /\ use_gps_conversion = TRUE
    /\ coordinate_system = DefaultZone
    /\ landparcel_data = << >>
    /\ lines = << >>
    /\ cursor = 0
    /\ loading = FALSE
    /\ sim_load_message = "none"
    /\ export_report = [success_count |-> 0, error_list |-> << >>,
                        copied |-> << >>, backup |-> "none"]

-----------------------------------------------------------------------------
(* Settings menu check buttons *)

ToggleUsePointName ==
    /\ use_point_name' = ~use_point_name
    /\ UNCHANGED <<sim_points, photos_tree, photo_gps_data, use_landscape_suffix,
                   force_point_name_for_special, frame>>
    /\ UNCHANGED <<parser, reports>>

ToggleUseLandscapeSuffix ==
    /\ use_landscape_suffix' = ~use_landscape_suffix
    /\ UNCHANGED <<sim_points, photos_tree, photo_gps_data, use_point_name,
                   force_point_name_for_special, frame>>
    /\ UNCHANGED <<parser, reports>>

ToggleForcePointName ==
    /\ force_point_name_for_special' = ~force_point_name_for_special
    /\ UNCHANGED <<sim_points, photos_tree, photo_gps_data, use_point_name,
                   use_landscape_suffix, frame>>
    /\ UNCHANGED <<parser, reports>>

-----------------------------------------------------------------------------
(* Loading *)

\* load_photos on the files of `folder`: the dictionary and the list are
\* rebuilt
LoadPhotos(folder) ==
    /\ photo_gps_data' =
          [f \in {folder[i].file : i \in 1..Len(folder)} |->
              PhotoData(folder[CHOOSE i \in 1..Len(folder) : folder[i].file = f])]
    /\ photos_tree' = [i \in 1..Len(folder) |-> NewRow(folder[i])]
    /\ UNCHANGED <<sim_points, settings, frame>>
    /\ UNCHANGED <<parser, reports>>

\* load_photo_folder: the folder chosen in the dialog is loaded
LoadPhotoFolder ==
    LoadPhotos(Folder)

\* load_sim_file / load_sim_points: the points of the file replace the
\* list, then the frame is classified and the zone inferred
LoadSimFile(net) ==
    /\ sim_points' = net
    /\ IF DetectCoordinateSystemType(net)
       THEN /\ use_arbitrary_coordinates' = TRUE
            /\ use_gps_conversion' = FALSE
            /\ UNCHANGED coordinate_system
       ELSE /\ use_arbitrary_coordinates' = FALSE
            /\ use_gps_conversion' = TRUE
            /\ coordinate_system' =
                  IF DetectCoordinateSystemNumber(net) # 0
                  THEN DetectCoordinateSystemNumber(net)
                  ELSE coordinate_system
    /\ UNCHANGED <<photos_tree, photo_gps_data, settings>>
    /\ landparcel_data' = << >>
    /\ sim_load_message' = "success"
    /\ UNCHANGED <<lines, cursor, loading, export_report>>

-----------------------------------------------------------------------------
(* Naming *)

\* the test for a reference point: a marker token in the stripped point name
IsSpecialName(point) ==
    \/ Contains(Strip(point.name), MarkerKijun)
    \/ Contains(Strip(point.name), MarkerInsho)

\* the id/name preference (点名 if use_point_name, else 点番)
PreferredIdentifier(point) ==
    IF use_point_name THEN point.name ELSE point.num

\* variant of EffectiveIdentifier without the reference-point override
EffectiveIdentifierAsGiven(identifier, point_data) ==
    identifier

\* create_filename: the identifier after the reference-point override
EffectiveIdentifier(identifier, point_data) ==
    IF force_point_name_for_special /\ IsSpecialName(point_data)
    THEN Strip(point_data.name)
    ELSE identifier

\* create_filename: landscape type after the default for "unknown"; only
\* the suffix branch rewrites it
EffectiveLandscape(landscape_type) ==
    IF use_landscape_suffix /\ landscape_type = Unknown THEN Close
    ELSE landscape_type

\* variant of BaseFilename that leaves the extension out
BaseFilenameWithoutExt(identifier, original_filename, landscape_type) ==
    IF use_landscape_suffix
    THEN identifier \o (IF landscape_type = Distant THEN "-1" ELSE "-2")
    ELSE identifier

\* create_filename of the earlier program: no default for "unknown", no
\* reference-point override, no look at the other rows
LegacyCreateFilename(identifier, original_filename, landscape_type) ==
    IF use_landscape_suffix
    THEN identifier \o (IF landscape_type = Distant THEN "-1" ELSE "-2")
                    \o SplitExt(original_filename)
    ELSE identifier \o SplitExt(original_filename)

\* create_filename: base_filename
BaseFilename(identifier, original_filename, landscape_type) ==
    IF use_landscape_suffix
    THEN identifier \o (IF landscape_type = Distant THEN "-1" ELSE "-2")
                    \o SplitExt(original_filename)
    ELSE identifier \o SplitExt(original_filename)

\* create_filename: the row belongs to existing_photos
IsExisting(row, identifier, original_filename, landscape_type) ==
    /\ row.matching = identifier
    /\ use_landscape_suffix => row.landscape = landscape_type
    /\ row.orig # original_filename

\* create_filename: the row is an existing photo holding the base name, so
\* its name and matching are taken away
IsDisplaced(row, identifier, original_filename, landscape_type) ==
    /\ IsExisting(row, identifier, original_filename, landscape_type)
    /\ row.new = BaseFilename(identifier, original_filename, landscape_type)

\* create_filename: the Treeview row written for a displaced photo
DisplacedRow(row) ==
    [row EXCEPT !.new = "", !.matching = "", !.distance = << >>]

\* create_filename: the coordinates of a displaced photo are put back when
\* the dict has the original_x_coord / original_y_coord keys
RestoredData(d) ==
    IF d.has_original
    THEN [d EXCEPT !.has_xy = TRUE,
                   !.x_coord = d.original_x_coord,
                   !.y_coord = d.original_y_coord]
    ELSE d

\* variant of CreateFilename that leaves the holder of the base name alone
\* and numbers the photo being named, without asking whether the holder is
\* that photo itself
CreateFilenameKeepingHolder(tree, gps, identifier, original_filename, landscape_type, point_data) ==
    LET ident == EffectiveIdentifier(identifier, point_data)
        land == EffectiveLandscape(landscape_type)
        base == BaseFilename(ident, original_filename, land)
    IN  [name |-> IF \E i \in 1..Len(tree) : tree[i].new = base
                  THEN ident \o "_3" \o SplitExt(original_filename)
                  ELSE base,
         tree |-> tree,
         gps |-> gps]

\* variant of CreateFilename that takes the base name only from holders
\* listed above the photo being named
CreateFilenameDisplacingEarlier(tree, gps, identifier, original_filename, landscape_type, point_data) ==
    LET ident == EffectiveIdentifier(identifier, point_data)
        land == EffectiveLandscape(landscape_type)
        hit(i) == /\ IsDisplaced(tree[i], ident, original_filename, land)
                  /\ i < RowOf(tree, original_filename)
        gone == {tree[i].orig : i \in {j \in 1..Len(tree) : hit(j)}}
    IN  [name |-> BaseFilename(ident, original_filename, land),
         tree |-> [i \in 1..Len(tree) |->
                     IF hit(i) THEN DisplacedRow(tree[i]) ELSE tree[i]],
         gps |-> [f \in DOMAIN gps |->
                     IF f \in gone THEN RestoredData(gps[f]) ELSE gps[f]]]

\* create_filename(identifier, original_filename, landscape_type, point_data)
\* on the list `tree` and the dict `gps`: the name returned, and the list and
\* the dict it leaves
CreateFilename(tree, gps, identifier, original_filename, landscape_type, point_data) ==
    LET ident == EffectiveIdentifier(identifier, point_data)
        land == EffectiveLandscape(landscape_type)
        hit(i) == IsDisplaced(tree[i], ident, original_filename, land)
        gone == {tree[i].orig : i \in {j \in 1..Len(tree) : hit(j)}}
    IN  [name |-> BaseFilename(ident, original_filename, land),
         tree |-> [i \in 1..Len(tree) |->
                     IF hit(i) THEN DisplacedRow(tree[i]) ELSE tree[i]],
         gps |-> [f \in DOMAIN gps |->
                     IF f \in gone THEN RestoredData(gps[f]) ELSE gps[f]]]

\* squared Euclidean distance from a point to (x, y)
Dist2(point, x, y) ==
    (point.X - x) * (point.X - x) + (point.Y - y) * (point.Y - y)

\* the linear scan "if dist < min_distance": the index kept after the
\* points from k on, `best` being the index kept so far (0: none yet)
RECURSIVE ScanNearest(_, _, _, _, _)
ScanNearest(points, x, y, k, best) ==
    IF k > Len(points) THEN best
    ELSE IF best = 0 \/ Dist2(points[k], x, y) < Dist2(points[best], x, y)
         THEN ScanNearest(points, x, y, k + 1, k)
         ELSE ScanNearest(points, x, y, k + 1, best)

\* variant of ScanNearest that compares with <=
RECURSIVE ScanNearestOrEqual(_, _, _, _, _)
ScanNearestOrEqual(points, x, y, k, best) ==
    IF k > Len(points) THEN best
    ELSE IF best = 0 \/ Dist2(points[k], x, y) <= Dist2(points[best], x, y)
         THEN ScanNearestOrEqual(points, x, y, k + 1, k)
         ELSE ScanNearestOrEqual(points, x, y, k + 1, best)

\* variant of NearestPoint in which the later of two equally near points wins
NearestPointLastWins(points, x, y) ==
    ScanNearestOrEqual(points, x, y, 1, 0)

\* the nearest point of the scan: its index, 0 when there are no points
NearestPoint(points, x, y) ==
    ScanNearest(points, x, y, 1, 0)

\* variant of SnappedData that moves the original position as well
SnappedDataMovingOriginal(d, point) ==
    [d EXCEPT !.has_xy = TRUE, !.x_coord = point.X, !.y_coord = point.Y,
              !.has_original = TRUE,
              !.original_x_coord = point.X, !.original_y_coord = point.Y]

\* the dict entry after the snap to the matched point
SnappedData(d, point) ==
    [d EXCEPT !.has_xy = TRUE, !.x_coord = point.X, !.y_coord = point.Y]

-----------------------------------------------------------------------------
(* Inputs of the handlers *)

AllPoints == {net[i] : net \in Networks, i \in 1..2}

\* mouse releases on the map: display coordinates are (Y, X); one release
\* 3 m / 4 m off every point of the networks
DropEvents == {[xdata |-> p.Y + 4, ydata |-> p.X + 3] : p \in AllPoints}

-----------------------------------------------------------------------------
(* Drag and drop: on_map_release, show_landscape_dialog, confirm_landscape *)

\* confirm_landscape: the identifier chosen by the dialog
DialogIdentifier(matched_point) ==
    IF IsSpecialName(matched_point) THEN matched_point.name
    ELSE PreferredIdentifier(matched_point)

\* confirm_landscape on the list `tree` and dict `gps`: the list and the
\* dict after the OK button
ConfirmLandscape(tree, gps, photo_name, matched_point, d2, photo_landscape) ==
    LET identifier == DialogIdentifier(matched_point)
        cf == CreateFilename(tree, gps, identifier, photo_name, photo_landscape,
                             matched_point)
        r == RowOf(cf.tree, photo_name)
    IN  [tree |-> [cf.tree EXCEPT ![r] = [@ EXCEPT !.new = cf.name,
                                                  !.landscape = photo_landscape,
                                                  !.matching = identifier,
                                                  !.distance = <<d2>>]],
         gps |-> IF photo_name \in DOMAIN cf.gps
                 THEN [cf.gps EXCEPT ![photo_name] = SnappedData(@, matched_point)]
                 ELSE cf.gps]

\* the drop of `event` finds a point closer than 50 m
DropMatches(event) ==
    /\ event.xdata # 0 /\ event.ydata # 0
    /\ NearestPoint(sim_points, event.ydata, event.xdata) # 0
    /\ LET m == sim_points[NearestPoint(sim_points, event.ydata, event.xdata)]
       IN  Dist2(m, event.ydata, event.xdata) < DropLimit * DropLimit

\* the photo is dragged from the list, released at `event`, and the dialog
\* is answered with photo_landscape
DragDrop(photo, event, photo_landscape) ==
    /\ photo \in PhotoNames
    /\ DropMatches(event)
    /\ LET m == sim_points[NearestPoint(sim_points, event.ydata, event.xdata)]
           res == ConfirmLandscape(photos_tree, photo_gps_data, photo, m,
                                   Dist2(m, event.ydata, event.xdata), photo_landscape)
       IN  /\ photos_tree' = res.tree
           /\ photo_gps_data' = res.gps
    /\ UNCHANGED <<sim_points, settings, frame>>
    /\ UNCHANGED <<parser, reports>>

-----------------------------------------------------------------------------
(* Context menu: edit_photo_matching / save_edit, unmatch_photo *)

\* save_edit: index of the first point whose preferred identifier or name is
\* the stored identifier, 0 when there is none
EditPoint(identifier) ==
    LET ok == {i \in 1..Len(sim_points) :
                 \/ PreferredIdentifier(sim_points[i]) = identifier
                 \/ sim_points[i].name = identifier}
    IN  IF ok = {} THEN 0 ELSE CHOOSE i \in ok : \A j \in ok : i <= j

\* save_edit on the list `tree` and dict `gps` for the row of `photo`
SaveEditResult(tree, gps, photo, new_landscape) ==
    LET values == tree[RowOf(tree, photo)]
        cf == CreateFilename(tree, gps, values.matching, values.orig, new_landscape,
                             sim_points[EditPoint(values.matching)])
    IN  [tree |-> [cf.tree EXCEPT ![RowOf(tree, photo)] =
                      [values EXCEPT !.new = cf.name, !.landscape = new_landscape]],
         gps |-> cf.gps]

SaveEditFinds(tree, photo, new_landscape) ==
    LET values == tree[RowOf(tree, photo)]
    IN  /\ values.matching # ""
        /\ new_landscape \in {Distant, Close, values.landscape}
        /\ EditPoint(values.matching) # 0

SaveEdit(photo, new_landscape) ==
    /\ photo \in PhotoNames
    /\ SaveEditFinds(photos_tree, photo, new_landscape)
    /\ LET res == SaveEditResult(photos_tree, photo_gps_data, photo, new_landscape)
       IN  /\ photos_tree' = res.tree
           /\ photo_gps_data' = res.gps
    /\ UNCHANGED <<sim_points, settings, frame>>
    /\ UNCHANGED <<parser, reports>>

\* variant of UnmatchedRow that leaves the distance cell as it was
UnmatchedRowKeepingDistance(values) ==
    [values EXCEPT !.new = "", !.landscape = Unknown, !.matching = ""]

\* unmatch_photo: the row written when the question is answered yes
UnmatchedRow(values) ==
    [values EXCEPT !.new = "", !.landscape = Unknown, !.matching = "",
                   !.distance = << >>]

\* unmatch_photo: the list after the release of `photo`
UnmatchTree(tree, photo) ==
    [tree EXCEPT ![RowOf(tree, photo)] = UnmatchedRow(@)]

\* variant of UnmatchPhoto that also empties the parcel list
UnmatchPhotoDroppingParcels(photo) ==
    /\ photo \in PhotoNames
    /\ photos_tree[RowOf(photos_tree, photo)].matching # ""
    /\ photos_tree' = UnmatchTree(photos_tree, photo)
    /\ landparcel_data' = << >>
    /\ UNCHANGED <<sim_points, photo_gps_data, settings, frame>>
    /\ UNCHANGED <<lines, cursor, loading, reports>>

UnmatchPhoto(photo) ==
    /\ photo \in PhotoNames
    /\ photos_tree[RowOf(photos_tree, photo)].matching # ""
    /\ photos_tree' = UnmatchTree(photos_tree, photo)
    /\ UNCHANGED <<sim_points, photo_gps_data, settings, frame>>
    /\ UNCHANGED <<parser, reports>>

-----------------------------------------------------------------------------
(* GPS auto-match: auto_match_by_gps *)

\* the row is skipped: matched already, or without a position
AutoMatchSkips(gps, values) ==
    \/ values.matching # ""
    \/ values.orig \notin DOMAIN gps
    \/ ~gps[values.orig].has_xy

\* variant of AutoMatchHits that takes the nearest point at any distance
AutoMatchHitsAtAnyDistance(gps, values, distance) ==
    /\ ~AutoMatchSkips(gps, values)
    /\ NearestPoint(sim_points, gps[values.orig].x_coord, gps[values.orig].y_coord) # 0

\* the nearest point of the row's photo is within the limit
AutoMatchHits(gps, values, distance) ==
    /\ ~AutoMatchSkips(gps, values)
    /\ LET data == gps[values.orig]
           n == NearestPoint(sim_points, data.x_coord, data.y_coord)
       IN  /\ n # 0
           /\ Dist2(sim_points[n], data.x_coord, data.y_coord) <= distance * distance

\* the body of the loop for a row that is matched
AutoMatchResult(tree, gps, i) ==
    LET values == tree[i]
        data == gps[values.orig]
        matched_point == sim_points[NearestPoint(sim_points, data.x_coord, data.y_coord)]
        identifier == PreferredIdentifier(matched_point)
        cf == CreateFilename(tree, gps, identifier, values.orig, Close, matched_point)
    IN  [tree |-> [cf.tree EXCEPT ![i] =
                      [values EXCEPT !.new = cf.name,
                                     !.landscape = Close,
                                     !.xcol = <<matched_point.X>>,
                                     !.ycol = <<matched_point.Y>>,
                                     !.matching = identifier,
                                     !.distance = <<Dist2(matched_point, data.x_coord,
                                                          data.y_coord)>>]],
         gps |-> [cf.gps EXCEPT ![values.orig] = SnappedData(@, matched_point)]]

\* the loop over get_children() from row i on
RECURSIVE AutoMatchLoop(_, _, _, _)
AutoMatchLoop(tree, gps, i, distance) ==
    IF i > Len(tree) THEN [tree |-> tree, gps |-> gps]
    ELSE IF AutoMatchHits(gps, tree[i], distance)
         THEN LET res == AutoMatchResult(tree, gps, i)
              IN  AutoMatchLoop(res.tree, res.gps, i + 1, distance)
         ELSE AutoMatchLoop(tree, gps, i + 1, distance)

AutoMatchByGps(distance) ==
    /\ Len(sim_points) # 0
    /\ DOMAIN photo_gps_data # {}
    /\ ~use_arbitrary_coordinates
    /\ use_gps_conversion
    /\ distance # 0
    /\ LET res == AutoMatchLoop(photos_tree, photo_gps_data, 1, distance)
       IN  /\ photos_tree' = res.tree
           /\ photo_gps_data' = res.gps
    /\ UNCHANGED <<sim_points, settings, frame>>
    /\ UNCHANGED <<parser, reports>>

-----------------------------------------------------------------------------
(* Specification *)

Next ==
    \/ ToggleUsePointName
    \/ ToggleUseLandscapeSuffix
    \/ ToggleForcePointName
    \/ LoadPhotoFolder
    \/ \E net \in Networks : LoadSimFile(net)
    \/ \E photo \in PhotoNames, event \in DropEvents, l \in {Distant, Close} :
          DragDrop(photo, event, l)
    \/ \E photo \in PhotoNames, l \in {Distant, Close, Unknown} : SaveEdit(photo, l)
    \/ \E photo \in PhotoNames : UnmatchPhoto(photo)
    \/ \E distance \in Limits : AutoMatchByGps(distance)

Spec == Init /\ [][Next]_vars

-----------------------------------------------------------------------------
(* Vocabulary of the properties *)

Rows == 1..Len(photos_tree)

\* every identifier a point of the loaded network can give
Identifiers ==
    {sim_points[i].num : i \in 1..Len(sim_points)}
        \cup {sim_points[i].name : i \in 1..Len(sim_points)}

\* decimal text of a natural number
Digit(n) == SubSeq("0123456789", n + 1, n + 1)
RECURSIVE IntToStr(_)
IntToStr(n) == IF n < 10 THEN Digit(n) ELSE IntToStr(n \div 10) \o Digit(n % 10)

\* the two kinds of canonical names of a photo file at an identifier
BaseName(identifier, landscape, file) ==
    identifier \o (IF landscape = Distant THEN "-1" ELSE "-2") \o SplitExt(file)
NumberedName(identifier, n, file) ==
    identifier \o "_" \o IntToStr(n) \o SplitExt(file)

\* numbers above the two reserved ones that a numbered name may carry here
Numbers == 3..(Len(photos_tree) + 3)

\* a base (non-numbered) name: with the category suffix, or the bare
\* identifier that is given while the suffix setting is off
IsBaseName(name, file) ==
    \E id \in Identifiers :
        \/ \E l \in {Distant, Close} : name = BaseName(id, l, file)
        \/ name = id \o SplitExt(file)
IsNumberedName(name, file) ==
    \E id \in Identifiers, n \in Numbers : name = NumberedName(id, n, file)

\* the numbers in use at an identifier, in either category: the reserved
\* 1 and 2 and those of the numbered names held in the list
UsedNumbers(identifier) ==
    {1, 2} \cup {n \in Numbers :
                   \E i \in Rows :
                      photos_tree[i].new = NumberedName(identifier, n, photos_tree[i].orig)}
SmallestUnused(identifier) ==
    CHOOSE n \in Numbers :
        /\ n \notin UsedNumbers(identifier)
        /\ \A k \in Numbers : k < n => k \in UsedNumbers(identifier)

\* a step that is one Assign of `photo`: a confirmed drop or a saved edit
DragDropOf(photo) ==
    \E event \in DropEvents, l \in {Distant, Close} : DragDrop(photo, event, l)
SaveEditOf(photo) ==
    \E l \in {Distant, Close, Unknown} : SaveEdit(photo, l)
AssignOf(photo) == DragDropOf(photo) \/ SaveEditOf(photo)

\* in this step row i lost the name it held
LosesName(i) ==
    /\ photos_tree[i].new # ""
    /\ photos_tree'[i].new # photos_tree[i].new

\* the position of the dict entry is the original one (none if there was none)
AtOriginalPosition(d) ==
    IF d.has_original
    THEN d.has_xy /\ d.x_coord = d.original_x_coord /\ d.y_coord = d.original_y_coord
    ELSE ~d.has_xy

\* row i carries a category but neither a name nor a point: its photo was
\* displaced by another photo and not assigned again
IsDisplacedRow(i) ==
    /\ photos_tree[i].landscape \in {Distant, Close}
    /\ photos_tree[i].new = ""
    /\ photos_tree[i].matching = ""

-----------------------------------------------------------------------------
(* Properties *)

\* C1: for every (identifier, category) at most one photo holds the base
\* name identifier-1 / identifier-2, and every other photo that was assigned
\* (it carries a category) holds a numbered name identifier_n with n >= 3,
\* no two of them the same.
CollisionInvariant ==
    /\ \A id \in Identifiers, l \in {Distant, Close} :
          Cardinality({i \in Rows :
                         photos_tree[i].new = BaseName(id, l, photos_tree[i].orig)}) <= 1
    /\ \A i \in Rows :
          photos_tree[i].landscape \in {Distant, Close} =>
             \/ IsBaseName(photos_tree[i].new, photos_tree[i].orig)
             \/ /\ IsNumberedName(photos_tree[i].new, photos_tree[i].orig)
                /\ \A j \in Rows \ {i} : photos_tree[j].new # photos_tree[i].new

\* C2: no two distinct photos hold the same non-empty assigned file name.
NoDuplicateNames ==
    \A i, j \in Rows :
        (i # j /\ photos_tree[i].new # "") => photos_tree[i].new # photos_tree[j].new

\* C3: when an Assign takes the base name from another photo, that photo is
\* renamed to identifier_n with n the smallest unused number >= 3 (BM1-2.jpg
\* becomes BM1_3.jpg) and the assigned photo holds the base name.
DisplacedIsRenumbered ==
    [][\A photo \in PhotoNames :
          AssignOf(photo) =>
             \A i \in Rows :
                (photos_tree[i].orig # photo /\ LosesName(i)) =>
                   /\ photos_tree'[RowOf(photos_tree, photo)].new = photos_tree[i].new
                   /\ \E id \in Identifiers, l \in {Distant, Close} :
                         /\ photos_tree[i].new = BaseName(id, l, photos_tree[i].orig)
                         /\ photos_tree'[i].new =
                               NumberedName(id, SmallestUnused(id), photos_tree[i].orig)]_vars

\* C4: after a demotion the demoted photo is at its original projected
\* position, not at the matched point; a photo without a position at load
\* time has none again.
DemotionRestoresPosition ==
    [][\A photo \in PhotoNames :
          AssignOf(photo) =>
             \A i \in Rows :
                (photos_tree[i].orig # photo /\ LosesName(i)) =>
                   AtOriginalPosition(photo_gps_data'[photos_tree[i].orig])]_vars

\* the outcome r2 of a repeated Assign of `photo` against the outcome r1 of
\* the first: the same name for the photo, every other photo as it was
SameOutcome(r1, r2, photo) ==
    /\ r2.tree[RowOf(r1.tree, photo)].new = r1.tree[RowOf(r1.tree, photo)].new
    /\ \A j \in 1..Len(r1.tree) : r1.tree[j].orig # photo => r2.tree[j] = r1.tree[j]
    /\ \A f \in DOMAIN r1.gps : f # photo => r2.gps[f] = r1.gps[f]

\* C5: Assign is idempotent on every path: a second Assign with the same
\* arguments gives the photo the same name and changes no other photo.
AssignIdempotent ==
    \A photo \in PhotoNames :
        /\ \A event \in DropEvents, l \in {Distant, Close} :
              DropMatches(event) =>
                 LET m == sim_points[NearestPoint(sim_points, event.ydata, event.xdata)]
                     d2 == Dist2(m, event.ydata, event.xdata)
                     r1 == ConfirmLandscape(photos_tree, photo_gps_data, photo, m, d2, l)
                     r2 == ConfirmLandscape(r1.tree, r1.gps, photo, m, d2, l)
                 IN  SameOutcome(r1, r2, photo)
        /\ \A l \in {Distant, Close, Unknown} :
              SaveEditFinds(photos_tree, photo, l) =>
                 LET r1 == SaveEditResult(photos_tree, photo_gps_data, photo, l)
                     r2 == SaveEditResult(r1.tree, r1.gps, photo, l)
                 IN  SameOutcome(r1, r2, photo)
        /\ \A distance \in Limits :
              AutoMatchHits(photo_gps_data,
                            photos_tree[RowOf(photos_tree, photo)], distance) =>
                 LET i == RowOf(photos_tree, photo)
                     r1 == AutoMatchResult(photos_tree, photo_gps_data, i)
                     r2 == AutoMatchResult(r1.tree, r1.gps, i)
                 IN  SameOutcome(r1, r2, photo)

\* C5 witness: an Assign has taken the base name from another photo
AssignedOverIncumbent ==
    \E i, j \in Rows :
        /\ IsDisplacedRow(i)
        /\ photos_tree[j].new # ""
        /\ photos_tree[j].matching # ""

\* C6: one Assign changes the name of at most one other photo, that photo
\* gets a fresh numbered name and never a base name, so nothing cascades.
CascadeBound ==
    [][\A photo \in PhotoNames :
          AssignOf(photo) =>
             /\ Cardinality({i \in Rows :
                               /\ photos_tree[i].orig # photo
                               /\ photos_tree'[i].new # photos_tree[i].new}) <= 1
             /\ \A i \in Rows :
                   (photos_tree[i].orig # photo /\ LosesName(i)) =>
                      /\ IsNumberedName(photos_tree'[i].new, photos_tree[i].orig)
                      /\ ~IsBaseName(photos_tree'[i].new, photos_tree[i].orig)
                      /\ \A j \in Rows : photos_tree[j].new # photos_tree'[i].new]_vars

\* C7: the number of a demoted photo is the smallest n >= 3 unused at the
\* identifier in either category, so demotions of the two categories of one
\* point never get the same number.
NumberedAcrossCategories ==
    [][\A photo \in PhotoNames :
          AssignOf(photo) =>
             \A i \in Rows :
                (photos_tree[i].orig # photo /\ LosesName(i)) =>
                   LET id == photos_tree[i].matching
                   IN  /\ photos_tree'[i].new =
                             NumberedName(id, SmallestUnused(id), photos_tree[i].orig)
                       /\ \A j \in Rows \ {i} :
                             photos_tree'[j].new # photos_tree'[i].new]_vars

\* C8: Unassign clears the photo's name, matched point and distance and
\* resets its category to unknown.
UnassignClears ==
    [][\A photo \in PhotoNames :
          UnmatchPhoto(photo) =>
             LET row == photos_tree'[RowOf(photos_tree, photo)]
             IN  /\ row.new = ""
                 /\ row.matching = ""
                 /\ row.distance = << >>
                 /\ row.landscape = Unknown]_vars

\* C8 witness: a photo released after it had been placed on a point: the
\* row is cleared while the photo still sits away from its original position
ReleasedPhoto ==
    \E i \in Rows :
        /\ photos_tree[i].new = ""
        /\ photos_tree[i].matching = ""
        /\ photos_tree[i].distance = << >>
        /\ photos_tree[i].landscape = Unknown
        /\ photo_gps_data[photos_tree[i].orig].has_xy
        /\ ~AtOriginalPosition(photo_gps_data[photos_tree[i].orig])

\* C9: Unassign of an incumbent empties the slot and changes no other
\* photo (nobody is promoted); a later Assign of another photo to the slot
\* gets the base name and demotes nobody.
UnassignEmptiesSlot ==
    [][\A photo \in PhotoNames :
          UnmatchPhoto(photo) =>
             LET name == photos_tree[RowOf(photos_tree, photo)].new
             IN  /\ \A i \in Rows :
                       photos_tree[i].orig # photo => photos_tree'[i] = photos_tree[i]
                 /\ photo_gps_data' = photo_gps_data
                 /\ \A i \in Rows : photos_tree'[i].new # name
                 /\ \A other \in PhotoNames \ {photo}, event \in DropEvents,
                       l \in {Distant, Close} :
                       DropMatches(event) =>
                          LET m == sim_points[NearestPoint(sim_points, event.ydata,
                                                           event.xdata)]
                              res == ConfirmLandscape(photos_tree', photo_gps_data', other,
                                                      m, Dist2(m, event.ydata, event.xdata), l)
                          IN  res.tree[RowOf(photos_tree, other)].new = name =>
                                 \A i \in Rows :
                                    photos_tree[i].orig # other =>
                                       res.tree[i] = photos_tree'[i]]_vars

\* Python: s.startswith(prefix)
StartsWith(s, prefix) ==
    Len(s) >= Len(prefix) /\ SubSeq(s, 1, Len(prefix)) = prefix

\* the steps that assign a photo to a reference point give it a name that
\* begins with the point's name: drop, edit, and the rows a pass matches
ReferencePointNamed ==
    /\ \A event \in DropEvents :
          DropMatches(event) =>
             LET m == sim_points[NearestPoint(sim_points, event.ydata, event.xdata)]
             IN  IsSpecialName(m) =>
                    \A photo \in PhotoNames, l \in {Distant, Close} :
                       DragDrop(photo, event, l) =>
                          StartsWith(photos_tree'[RowOf(photos_tree, photo)].new,
                                     Strip(m.name))
    /\ \A photo \in PhotoNames, l \in {Distant, Close, Unknown} :
          (SaveEditFinds(photos_tree, photo, l) /\ SaveEdit(photo, l)) =>
             LET m == sim_points[EditPoint(photos_tree[RowOf(photos_tree, photo)].matching)]
             IN  IsSpecialName(m) =>
                    StartsWith(photos_tree'[RowOf(photos_tree, photo)].new, Strip(m.name))
    /\ \A i \in Rows :
          (photos_tree[i].matching = "" /\ photos_tree'[i].matching # "") =>
             \A distance \in Limits :
                AutoMatchByGps(distance) =>
                   LET data == photo_gps_data[photos_tree[i].orig]
                       m == sim_points[NearestPoint(sim_points, data.x_coord, data.y_coord)]
                   IN  IsSpecialName(m) => StartsWith(photos_tree'[i].new, Strip(m.name))

\* no step renames a photo that is named after a reference point to a
\* numbered name
ReferencePointNeverNumbered ==
    \A i \in Rows, k \in 1..Len(sim_points) :
        (IsSpecialName(sim_points[k])
            /\ Len(photos_tree') = Len(photos_tree)
            /\ photos_tree'[i].new # photos_tree[i].new
            /\ StartsWith(photos_tree[i].new, Strip(sim_points[k].name))) =>
           ~IsNumberedName(photos_tree'[i].new, photos_tree[i].orig)

-----------------------------------------------------------------------------
(* The matcher: networks, folders and mouse releases that put a photo on  *)
(* either side of a limit, and between two equally near points            *)

\* the scenario network moved into the national plane (its mean lies in the
\* box of zone 1): the photo a.jpg, at (20103, 10264) in zone 1, is 10 m /
\* 5 m off BM1, sqrt(125) = 11.18 m
NetScenario == << Point("BM1", "P1", 20093, 10259),
                  Point("BM2", "P2", 20493, 10259) >>

\* the scenario network with the coordinates as they are written
NetLocalScenario == << Point("BM1", "P1", 100, 200),
                       Point("BM2", "P2", 500, 200) >>

\* two points 4 m either side of a.jpg, in both orders of the file
NetTie == << Point("T1", "NORTH", 20103, 10260),
             Point("T2", "SOUTH", 20103, 10268) >>

NetTieReversed == << NetTie[2], NetTie[1] >>

\* a file without a point record
NetEmpty == << >>

MatchNetworks == {NetScenario, NetLocalScenario, NetTie, NetTieReversed, NetEmpty}

\* a folder whose only photo is projected to (110, 205) in the default zone
FolderLocal == << Exif("p.jpg", TRUE, 110, 205) >>

\* a folder with a photo that zone 1 projects to (20103, 10264) and a photo
\* without GPS
FolderPlane == << Exif("a.jpg", TRUE, 28103, 18264),
                  Exif("b.jpg", FALSE, 0, 0) >>

MatchFolders == {FolderPlane, FolderLocal}

\* releases 5 m and exactly 50 m off BM1, one between the two tied points,
\* and one at (110, 205); display coordinates are (Y, X)
MatchDropEvents ==
    {[xdata |-> NetScenario[1].Y + 4, ydata |-> NetScenario[1].X + 3],
     [xdata |-> NetScenario[1].Y + 40, ydata |-> NetScenario[1].X + 30],
     [xdata |-> 10264, ydata |-> 20103],
     [xdata |-> 205, ydata |-> 110]}

\* auto_match_by_gps: the conditions under which the pass is run at all
AutoMatchRuns(distance) ==
    /\ Len(sim_points) # 0
    /\ DOMAIN photo_gps_data # {}
    /\ ~use_arbitrary_coordinates
    /\ use_gps_conversion
    /\ distance # 0

\* auto_match_by_gps as a whole: the list and the dict it leaves, which are
\* the present ones when the request is turned down
AutoMatchOutcome(distance) ==
    IF AutoMatchRuns(distance)
    THEN AutoMatchLoop(photos_tree, photo_gps_data, 1, distance)
    ELSE [tree |-> photos_tree, gps |-> photo_gps_data]

MatchNext ==
    \/ \E folder \in MatchFolders : LoadPhotos(folder)
    \/ \E net \in MatchNetworks : LoadSimFile(net)
    \/ \E photo \in PhotoNames, event \in MatchDropEvents : DragDrop(photo, event, Close)
    \/ \E photo \in PhotoNames : UnmatchPhoto(photo)
    \/ \E distance \in Limits : AutoMatchByGps(distance)

MatchSpec == Init /\ [][MatchNext]_vars

\* the least squared distance from (x, y) to a point of a non-empty list
MinDist2(points, x, y) ==
    CHOOSE d \in {Dist2(points[k], x, y) : k \in 1..Len(points)} :
        \A k \in 1..Len(points) : d <= Dist2(points[k], x, y)

\* the first index, in the order of the file, of a point at the least distance
FirstNearest(points, x, y) ==
    CHOOSE k \in 1..Len(points) :
        /\ Dist2(points[k], x, y) = MinDist2(points, x, y)
        /\ \A j \in 1..(k - 1) : Dist2(points[j], x, y) # MinDist2(points, x, y)

\* rows that a pass would look at: not matched, with a position
Candidates ==
    {i \in Rows : ~AutoMatchSkips(photo_gps_data, photos_tree[i])}

\* a release is accepted exactly when the nearest point is at most 50 m away
DropWithinLimit ==
    \A event \in MatchDropEvents :
        Len(sim_points) # 0 =>
           (DropMatches(event) <=>
               MinDist2(sim_points, event.ydata, event.xdata) <= DropLimit * DropLimit)

\* a pass matches a row exactly when its nearest point is within the limit
PassWithinLimit ==
    \A i \in Candidates, distance \in Limits :
        Len(sim_points) # 0 =>
           LET data == photo_gps_data[photos_tree[i].orig]
           IN  AutoMatchHits(photo_gps_data, photos_tree[i], distance) <=>
                  MinDist2(sim_points, data.x_coord, data.y_coord) <= distance * distance

\* the scenario: BM1 and BM2 loaded, the photo at
\* 11.18 m from BM1 and not matched: the limit 10 leaves it alone, the limit
\* 15 names it BM1-2
ScenarioOutcome ==
    \A i \in Rows :
        LET data == photo_gps_data[photos_tree[i].orig]
        IN  (/\ photos_tree[i].matching = ""
             /\ \/ /\ sim_points = NetScenario
                   /\ data.has_xy /\ data.x_coord = 20103 /\ data.y_coord = 10264
                \/ /\ sim_points = NetLocalScenario
                   /\ data.has_xy /\ data.x_coord = 110 /\ data.y_coord = 205) =>
               /\ AutoMatchOutcome(10).tree[i].new = ""
               /\ AutoMatchOutcome(10).tree[i].matching = ""
               /\ AutoMatchOutcome(15).tree[i].matching = "BM1"
               /\ AutoMatchOutcome(15).tree[i].new =
                     "BM1-2" \o SplitExt(photos_tree[i].orig)

\* C11: on the drop path and on the pass the nearest point is a match exactly
\* when its distance is at most the limit; BM1(100,200), BM2(500,200) and a
\* photo at (110,205): no match with 10, BM1 and the name BM1-2 with 15.
MatcherThreshold ==
    DropWithinLimit /\ PassWithinLimit /\ ScenarioOutcome

\* match_photos_to_points_xy of the earlier program (src/開発用GPSSCAN.py):
\* the same scan over the rows of points_df, "if distance < min_distance"
ClosestPoint(points_df, photo_x, photo_y) ==
    ScanNearest(points_df, photo_x, photo_y, 1, 0)

\* the scans return the first of the points at the least distance
ScanKeepsFirst ==
    /\ \A i \in Candidates :
          LET data == photo_gps_data[photos_tree[i].orig]
          IN  Len(sim_points) # 0 =>
                 /\ NearestPoint(sim_points, data.x_coord, data.y_coord) =
                       FirstNearest(sim_points, data.x_coord, data.y_coord)
                 /\ ClosestPoint(sim_points, data.x_coord, data.y_coord) =
                       FirstNearest(sim_points, data.x_coord, data.y_coord)
    /\ \A event \in MatchDropEvents :
          Len(sim_points) # 0 =>
             NearestPoint(sim_points, event.ydata, event.xdata) =
                FirstNearest(sim_points, event.ydata, event.xdata)

\* a row matched by a pass or by a drop carries the identifier of the first
\* of the nearest points
MatchTakesFirst ==
    /\ \A distance \in Limits :
          AutoMatchByGps(distance) =>
             \A i \in Rows :
                (photos_tree[i].matching = "" /\ photos_tree'[i].matching # "") =>
                   LET data == photo_gps_data[photos_tree[i].orig]
                   IN  photos_tree'[i].matching =
                          PreferredIdentifier(
                             sim_points[FirstNearest(sim_points, data.x_coord, data.y_coord)])
    /\ \A event \in MatchDropEvents :
          DropMatches(event) =>
             \A photo \in PhotoNames :
                DragDrop(photo, event, Close) =>
                   photos_tree'[RowOf(photos_tree, photo)].matching =
                      DialogIdentifier(
                         sim_points[FirstNearest(sim_points, event.ydata, event.xdata)])

\* C12: of several control points at the same least distance from a photo,
\* the matcher takes the one that comes first in the order of the file.
TieFirstInFileOrder ==
    [][ScanKeepsFirst /\ MatchTakesFirst]_vars

\* C12 witness: with two points 4 m either side of it, a photo is matched to
\* the one that the loaded file lists first
TieResolved ==
    \E i \in Rows :
        /\ sim_points \in {NetTie, NetTieReversed}
        /\ photos_tree[i].distance = <<16>>
        /\ photos_tree[i].matching = sim_points[1].num
        /\ photo_gps_data[photos_tree[i].orig].x_coord = sim_points[1].X
        /\ photo_gps_data[photos_tree[i].orig].y_coord = sim_points[1].Y

\* the row is farther than the limit from every point
FarFromAll(i, distance) ==
    LET data == photo_gps_data[photos_tree[i].orig]
    IN  \A k \in 1..Len(sim_points) :
           Dist2(sim_points[k], data.x_coord, data.y_coord) > distance * distance

\* C13: a pass never assigns silently: a photo without a position, a photo
\* farther than the limit from every point, and every photo when there is
\* no point, has no name and no matched point after the pass.
NoSilentAssignment ==
    \A distance \in Limits, i \in Rows :
        (/\ photos_tree[i].new = ""
         /\ photos_tree[i].matching = ""
         /\ \/ ~photo_gps_data[photos_tree[i].orig].has_xy
            \/ FarFromAll(i, distance)
            \/ Len(sim_points) = 0) =>
           /\ AutoMatchOutcome(distance).tree[i].new = ""
           /\ AutoMatchOutcome(distance).tree[i].matching = ""

\* C13 witness: a pass that runs and matches one photo, over a tree that also
\* holds an unnamed photo without a position
PassLeftPhotoWithoutPosition ==
    \E i, j \in Rows :
        /\ AutoMatchRuns(15)
        /\ photos_tree[i].matching = ""
        /\ AutoMatchOutcome(15).tree[i].matching # ""
        /\ ~photo_gps_data[photos_tree[j].orig].has_xy
        /\ photos_tree[j].new = ""
        /\ photos_tree[j].matching = ""

-----------------------------------------------------------------------------
(* The coordinate frame: classification, zone inference, settings *)

\* a network whose four absolute extrema are all v
NetAt(v) == << Point("K1", "P1", v, v), Point("K2", "P2", -v, -v) >>

\* networks with a single coordinate at v, every other coordinate at w
NetXmax(v, w) == << Point("K1", "P1", v, w), Point("K2", "P2", w, w) >>
NetXmin(v, w) == << Point("K1", "P1", -v, w), Point("K2", "P2", w, w) >>
NetYmax(v, w) == << Point("K1", "P1", w, v), Point("K2", "P2", w, w) >>
NetYmin(v, w) == << Point("K1", "P1", w, -v), Point("K2", "P2", w, w) >>

\* a national-plane network of two points whose mean is (x, y)
NetMean(x, y) == << Point("K1", "P1", x - 7000, y + 6000),
                    Point("K2", "P2", x + 7000, y - 6000) >>

\* the values around the two thresholds
Boundaries == {LocalLimit - 1, LocalLimit, PlaneLimit - 1, PlaneLimit}

\* the files of the frame study: extrema at and around the thresholds, means
\* inside the first box, inside later boxes only, on an edge, in no box
FrameNetworks ==
    {NetAt(v) : v \in Boundaries}
        \cup {NetXmax(v, 0) : v \in Boundaries}
        \cup {NetXmin(v, 0) : v \in Boundaries}
        \cup {NetYmax(v, 0) : v \in Boundaries}
        \cup {NetYmin(v, 0) : v \in Boundaries}
        \cup {NetXmax(PlaneLimit, 10000), NetYmin(PlaneLimit, 10000)}
        \cup {NetMean(20000, 10000), NetMean(150000, 10000),
              NetMean(150001, 10000), NetMean(180000, 10000),
              NetMean(20000, 120000), NetMean(-200000, 10000),
              NetMean(-200000, 120000), NetMean(250000, 10000),
              NetMean(20000, 250000), NetMean(-180000, -180000)}
        \cup {NetEmpty, NetLocalScenario}

\* gpsscan_settings.json as save_settings writes it
SettingsFile(name, suffix, force, zone, gps) ==
    [use_point_name |-> name, use_landscape_suffix |-> suffix,
     force_point_name_for_special |-> force, coordinate_system |-> zone,
     use_gps_conversion |-> gps]

SettingsFiles == {SettingsFile(FALSE, TRUE, TRUE, 5, TRUE),
                  SettingsFile(FALSE, TRUE, TRUE, 5, FALSE),
                  SettingsFile(FALSE, TRUE, TRUE, DefaultZone, TRUE)}

\* variant of LoadSettings that restores the GPS conversion in every frame
LoadSettingsRestoringGps(file) ==
    /\ use_point_name' = file.use_point_name
    /\ use_landscape_suffix' = file.use_landscape_suffix
    /\ force_point_name_for_special' = file.force_point_name_for_special
    /\ coordinate_system' = file.coordinate_system
    /\ use_gps_conversion' = file.use_gps_conversion
    /\ UNCHANGED <<sim_points, photos_tree, photo_gps_data,
                   use_arbitrary_coordinates>>
    /\ UNCHANGED <<parser, reports>>

\* load_settings: the stored values replace the current ones; the GPS
\* conversion is restored only outside the arbitrary frame
LoadSettings(file) ==
    /\ use_point_name' = file.use_point_name
    /\ use_landscape_suffix' = file.use_landscape_suffix
    /\ force_point_name_for_special' = file.force_point_name_for_special
    /\ coordinate_system' = file.coordinate_system
    /\ use_gps_conversion' = IF ~use_arbitrary_coordinates
                             THEN file.use_gps_conversion
                             ELSE use_gps_conversion
    /\ UNCHANGED <<sim_points, photos_tree, photo_gps_data,
                   use_arbitrary_coordinates>>
    /\ UNCHANGED <<parser, reports>>

\* the check button "GPS座標を平面直角座標に変換"; load_sim_points disables
\* the widget in the arbitrary frame and enables it in the plane frame
ToggleGpsConversion ==
    /\ ~use_arbitrary_coordinates
    /\ use_gps_conversion' = ~use_gps_conversion
    /\ UNCHANGED <<sim_points, photos_tree, photo_gps_data, settings,
                   use_arbitrary_coordinates, coordinate_system>>
    /\ UNCHANGED <<parser, reports>>

FrameNext ==
    \/ \E net \in FrameNetworks : LoadSimFile(net)
    \/ \E file \in SettingsFiles : LoadSettings(file)
    \/ ToggleGpsConversion

FrameSpec == Init /\ [][FrameNext]_vars

\* the networks and photos of the GPS study
GpsNetworks == {NetScenario, NetLocalScenario, NetEmpty}

GpsNext ==
    \/ \E folder \in MatchFolders : LoadPhotos(folder)
    \/ \E net \in GpsNetworks : LoadSimFile(net)
    \/ \E file \in SettingsFiles : LoadSettings(file)
    \/ ToggleGpsConversion
    \/ \E distance \in Limits : AutoMatchByGps(distance)

GpsSpec == Init /\ [][GpsNext]_vars

\* every coordinate of the points lies strictly inside (-v, v)
AllInside(points, v) ==
    \A k \in 1..Len(points) :
        /\ -v < points[k].X /\ points[k].X < v
        /\ -v < points[k].Y /\ points[k].Y < v

EmptyNeedsManual ==
    [][\A net \in FrameNetworks :
          (LoadSimFile(net) /\ Len(net) = 0) =>
             ~(~use_arbitrary_coordinates' /\ use_gps_conversion')]_vars

\* the boxes are tried from zone k on: the first that holds the mean, 0 if none
RECURSIVE FirstBox(_, _)
FirstBox(points, k) ==
    IF k > 19 THEN 0
    ELSE IF InBox(points, k) THEN k
    ELSE FirstBox(points, k + 1)

\* C16: on a national-plane network the zone becomes the first of the zones
\* 1..19 whose box holds the mean of the points; when no box holds it the
\* configured zone stays as it was.
ZoneIsFirstBox ==
    [][\A net \in FrameNetworks :
          (LoadSimFile(net) /\ Len(net) # 0 /\ ~use_arbitrary_coordinates') =>
             /\ DetectCoordinateSystemNumber(net) = FirstBox(net, 1)
             /\ coordinate_system' = IF FirstBox(net, 1) # 0
                                     THEN FirstBox(net, 1)
                                     ELSE coordinate_system]_vars

\* C16 witness: the mean of the loaded network lies above the boxes of zones
\* 1 and 2 and inside the box of zone 3, and the zone was set to 3
ZoneInferred ==
    /\ sim_points = NetMean(20000, 120000)
    /\ ~use_arbitrary_coordinates
    /\ coordinate_system = 3

\* C17: while the network is classified LOCAL the GPS conversion is off,
\* whatever networks and settings were loaded, and a GPS auto-match request
\* leaves every row of the photo list as it is.
LocalKeepsGpsOff ==
    use_arbitrary_coordinates =>
       /\ ~use_gps_conversion
       /\ \A distance \in Limits :
             /\ ~AutoMatchRuns(distance)
             /\ AutoMatchOutcome(distance).tree = photos_tree
             /\ AutoMatchOutcome(distance).gps = photo_gps_data

\* C17 witness: a LOCAL network is loaded, settings were read after it (the
\* zone 5 comes from a settings file), and a photo with a position lies
\* within the limit of a point
LocalWithSettingsLoaded ==
    /\ use_arbitrary_coordinates
    /\ coordinate_system = 5
    /\ \E i \in Rows :
          /\ photo_gps_data[photos_tree[i].orig].has_xy
          /\ photos_tree[i].matching = ""
          /\ ~FarFromAll(i, 15)

-----------------------------------------------------------------------------
(* The parser: load_sim_points, line by line *)
(* A line is the sequence of its comma-separated fields, line.split(',')  *)
(* of the stripped line; numbers are decimal integers with an optional    *)
(* minus sign.                                                            *)

\* most lines of a generated file
MaxLines == 2

IsDigit(c) == \E n \in 0..9 : Digit(n) = c

DigitValue(c) == CHOOSE n \in 0..9 : Digit(n) = c

\* float(text) / int(text) succeeds: blanks are stripped, then an optional
\* sign and at least one digit
IsNumber(text) ==
    LET t == Strip(text)
        body == IF StartsWith(t, "-") THEN SubSeq(t, 2, Len(t)) ELSE t
    IN  /\ Len(body) > 0
        /\ \A k \in 1..Len(body) : IsDigit(SubSeq(body, k, k))

RECURSIVE DigitsValue(_)
DigitsValue(body) ==
    IF Len(body) = 0 THEN 0
    ELSE DigitsValue(SubSeq(body, 1, Len(body) - 1)) * 10
            + DigitValue(SubSeq(body, Len(body), Len(body)))

\* the value float(text) / int(text) returns
NumberOf(text) ==
    LET t == Strip(text)
    IN  IF StartsWith(t, "-") THEN -DigitsValue(SubSeq(t, 2, Len(t)))
        ELSE DigitsValue(t)

\* line.startswith(tag)
HasTag(parts, tag) == StartsWith(parts[1], tag)

\* variant of ParseA01 that puts a new point in front of the list
ParseA01Prepending(parts, index, points) ==
    IF Len(parts) >= 5 /\ IsNumber(parts[4]) /\ IsNumber(parts[5])
    THEN [sim_points |->
             <<Point(Strip(parts[2]), Strip(parts[3]),
                     NumberOf(parts[4]), NumberOf(parts[5]))>> \o points,
          i |-> index + 1]
    ELSE [sim_points |-> points, i |-> index + 1]

\* the A01 branch: the point list and the index after the iteration
ParseA01(parts, index, points) ==
    IF Len(parts) >= 5
    THEN LET x_str == Strip(parts[4])
             y_str == Strip(parts[5])
         IN  IF x_str = "" \/ y_str = ""
             THEN \* continue
                  [sim_points |-> points, i |-> index]
             ELSE IF \/ ~IsNumber(x_str)
                     \/ ~IsNumber(y_str)
                     \/ /\ Len(parts) > 5
                        /\ Strip(parts[6]) # ""
                        /\ ~IsNumber(parts[6])
             THEN \* except (ValueError, IndexError)
                  [sim_points |-> points, i |-> index + 1]
             ELSE [sim_points |->
                      Append(points, Point(Strip(parts[2]), Strip(parts[3]),
                                           NumberOf(x_str), NumberOf(y_str))),
                   i |-> index + 1]
    ELSE [sim_points |-> points, i |-> index + 1]

\* the coordinate loop of the A02 branch, from j on: ok = no ValueError
RECURSIVE A02Coordinates(_, _, _, _, _)
A02Coordinates(ls, index, j, point_count, coordinates) ==
    IF j >= point_count THEN [ok |-> TRUE, coordinates |-> coordinates]
    ELSE IF index + 1 + j < Len(ls)
    THEN LET coord_parts == ls[index + 2 + j]
         IN  IF Len(coord_parts) >= 2
             THEN IF IsNumber(coord_parts[1]) /\ IsNumber(coord_parts[2])
                  THEN A02Coordinates(ls, index, j + 1, point_count,
                          Append(coordinates, <<NumberOf(coord_parts[2]),
                                                NumberOf(coord_parts[1])>>))
                  ELSE [ok |-> FALSE, coordinates |-> coordinates]
             ELSE A02Coordinates(ls, index, j + 1, point_count, coordinates)
    ELSE A02Coordinates(ls, index, j + 1, point_count, coordinates)

\* the A02 branch: the parcel list and the index after the iteration
ParseA02(ls, parts, index, parcels) ==
    IF Len(parts) >= 4 /\ IsNumber(parts[4])
    THEN LET point_count == NumberOf(parts[4])
             res == A02Coordinates(ls, index, 0, point_count, << >>)
         IN  IF res.ok
             THEN [landparcel_data |->
                      IF res.coordinates # << >>
                      THEN Append(parcels, [chiban |-> Strip(parts[3]),
                                            zahyo |-> res.coordinates])
                      ELSE parcels,
                   i |-> index + point_count + 1]
             ELSE [landparcel_data |-> parcels, i |-> index + 1]
    ELSE [landparcel_data |-> parcels, i |-> index + 1]

\* point_coord_map[key]: index of the last point stored under key, 0 if none
PointCoordMap(points, key) ==
    LET ks == {k \in 1..Len(points) :
                 \/ points[k].num = key
                 \/ points[k].name # "" /\ points[k].name = key}
    IN  IF ks = {} THEN 0 ELSE CHOOSE k \in ks : \A j \in ks : j <= k

\* the loop of parse_d00_landparcel from index k (0-based) on
RECURSIVE D00Loop(_, _, _, _)
D00Loop(ls, points, k, coordinates) ==
    IF k >= Len(ls) THEN [i |-> k, coordinates |-> coordinates]
    ELSE LET b01_parts == ls[k + 1]
         IN  IF HasTag(b01_parts, "D99") \/ HasTag(b01_parts, "D00")
             THEN [i |-> k, coordinates |-> coordinates]
             ELSE IF HasTag(b01_parts, "B01") /\ Len(b01_parts) >= 2
             THEN LET point_num == Strip(b01_parts[2])
                      point_name == IF Len(b01_parts) > 2
                                    THEN Strip(b01_parts[3]) ELSE ""
                      hit == IF PointCoordMap(points, point_num) # 0
                             THEN PointCoordMap(points, point_num)
                             ELSE IF point_name # ""
                             THEN PointCoordMap(points, point_name)
                             ELSE 0
                  IN  D00Loop(ls, points, k + 1,
                         IF hit # 0
                         THEN Append(coordinates, <<points[hit].X, points[hit].Y>>)
                         ELSE coordinates)
             ELSE D00Loop(ls, points, k + 1, coordinates)

\* parse_d00_landparcel(lines, start_index): found = a parcel is returned
ParseD00Landparcel(ls, start_index, points) ==
    LET parts == ls[start_index + 1]
    IN  IF Len(parts) < 4
        THEN [found |-> FALSE, info |-> << >>, lines_processed |-> 0]
        ELSE LET res == D00Loop(ls, points, start_index + 1, << >>)
             IN  [found |-> Len(res.coordinates) >= 3,
                  info |-> [chiban |-> Strip(parts[3]),
                            shubetsu |-> Strip(parts[2]),
                            zahyo |-> res.coordinates,
                            tensu |-> Len(res.coordinates)],
                  lines_processed |-> res.i - start_index]

\* one iteration of the while loop of load_sim_points at index `index`
Iteration(ls, index, points, parcels) ==
    LET parts == ls[index + 1]
    IN  IF HasTag(parts, "A01")
        THEN LET res == ParseA01(parts, index, points)
             IN  [sim_points |-> res.sim_points, landparcel_data |-> parcels,
                  i |-> res.i]
        ELSE IF HasTag(parts, "A02")
        THEN LET res == ParseA02(ls, parts, index, parcels)
             IN  [sim_points |-> points, landparcel_data |-> res.landparcel_data,
                  i |-> res.i]
        ELSE IF HasTag(parts, "D00")
        THEN LET res == ParseD00Landparcel(ls, index, points)
             IN  IF res.found
                 THEN [sim_points |-> points,
                       landparcel_data |-> Append(parcels, res.info),
                       i |-> index + res.lines_processed]
                 ELSE [sim_points |-> points, landparcel_data |-> parcels,
                       i |-> index + 1]
        ELSE [sim_points |-> points, landparcel_data |-> parcels, i |-> index + 1]

\* lines of network files
A01Line(num, name, x, y) == <<"A01", num, name, x, y>>
B01Line(num, name) == <<"B01", num, name>>
A02Line(name, count) == <<"A02", "1", name, count>>
PairLine(y, x) == <<y, x>>

\* three points, a linked parcel over them, a fourth point inside the parcel
\* block
FileLinkedParcel ==
    << A01Line("1", "P1", "20100", "10200"), A01Line("2", "P2", "20200", "10200"),
       A01Line("3", "P3", "20200", "10300"),
       <<"D00", "1", "LOT-7", "1">>,
       B01Line("1", "P1"), <<"C03", "100", "90">>, B01Line("9", "P2"), B01Line("3", ""),
       A01Line("4", "P4", "20100", "10300"),
       <<"D99">> >>

\* a linked parcel with two resolvable references only
FileShortParcel ==
    << A01Line("1", "P1", "20100", "10200"), A01Line("2", "P2", "20200", "10200"),
       <<"D00", "1", "LOT-8", "1">>,
       B01Line("1", "P1"), B01Line("2", "P2"), B01Line("5", "P5"),
       A01Line("4", "P4", "20100", "10300"),
       <<"D99">> >>

\* a legacy parcel with its two coordinate lines, then a point
FileLegacyParcel ==
    << A02Line("LOT-1", "2"), PairLine("10200", "20100"), PairLine("10300", "20200"),
       A01Line("1", "P1", "20100", "10200") >>

\* a legacy parcel whose first following line is a point record
FileLegacyOverPoint ==
    << A02Line("LOT-2", "2"), A01Line("1", "P1", "20100", "10200"),
       PairLine("10300", "20200"), A01Line("2", "P2", "20200", "10200") >>

\* a legacy parcel whose following lines have a single field
FileLegacyOverTags ==
    << A02Line("LOT-3", "2"), <<"D99">>, <<"">>,
       A01Line("1", "P1", "20100", "10200") >>

\* a legacy parcel that announces more lines than the file has
FileLegacyShort ==
    << A01Line("1", "P1", "20100", "10200"), A02Line("LOT-4", "3"),
       PairLine("10200", "20100") >>

\* point records with missing, unparsable and surplus fields
FileBrokenPoints ==
    << A01Line("1", "P1", "20100", "10200"), A01Line("2", "P2", "abc", "10200"),
       <<"A01", "3", "P3", "20200">>,
       <<"A01", "4", "P4", "20200", "10300", "">>,
       <<"A01", "5", "P5", "20300", "10300", "x">>,
       <<"A01", "6", "P6", " 20300 ", "-10300", "12">> >>

\* a point record whose x field is empty, between two good ones
FileEmptyField ==
    << A01Line("1", "P1", "20100", "10200"), A01Line("2", "P2", "", "10200"),
       A01Line("3", "P3", "20200", "10300") >>

\* a legacy parcel with a negative point count, after a point
FileNegativeCount ==
    << A01Line("1", "P1", "20100", "10200"), A02Line("LOT-5", "-1"),
       A01Line("2", "P2", "20200", "10200") >>

\* a linked parcel whose D00 record has three fields
FileThreeFieldParcel ==
    << A01Line("1", "P1", "20100", "10200"), A01Line("2", "P2", "20200", "10200"),
       A01Line("3", "P3", "20200", "10300"),
       <<"D00", "1", "LOT-9">>,
       B01Line("1", "P1"), B01Line("2", "P2"), B01Line("3", "P3"),
       <<"D99">> >>

\* the id of the first point is the name of the third; the parcel refers to
\* that value, and to a point that stands after the block
FileSharedKey ==
    << A01Line("K", "P1", "20100", "10200"), A01Line("2", "P2", "20200", "10200"),
       A01Line("3", "K", "20200", "10300"),
       <<"D00", "1", "LOT-10", "1">>,
       B01Line("K", ""), B01Line("2", "P2"), B01Line("3", ""), B01Line("4", "P4"),
       <<"D99">>,
       A01Line("4", "P4", "20100", "10300") >>

\* three linked parcels, the last block closed by the end of the file, and a
\* legacy parcel among them
FileTwoParcels ==
    << A01Line("1", "P1", "20100", "10200"), A01Line("2", "P2", "20200", "10200"),
       A01Line("3", "P3", "20200", "10300"),
       <<"D00", "1", "LOT-11", "1">>,
       B01Line("3", "P3"), B01Line("1", "P1"), <<"B01">>, B01Line("2", "P2"),
       <<"D00", "1", "LOT-12", "2">>,
       B01Line("2", "P2"), <<"">>, B01Line("3", "P3"), B01Line("1", "P1"),
       <<"D99">>,
       A02Line("LOT-13", "2"), PairLine("10300", "20200"), PairLine("10200", "20100"),
       <<"D00", "1", "LOT-14", "3">>,
       B01Line("1", "P1"), B01Line("7", "P3"), B01Line("2", "") >>

\* the lines the generated files are made of
LineAlphabet ==
    { A01Line("1", "P1", "20100", "10200"), A01Line("2", "P2", "20200", " "),
      A01Line("3", "P3", "x1", "10200"), A02Line("LOT", "1"), A02Line("LOT", "n"), PairLine("10200", "20100"), <<"D00", "1", "LOT">>,
      <<"Z00", "1">> }

\* every file of 1..MaxLines lines over the alphabet
GeneratedFiles ==
    UNION {[1..n -> LineAlphabet] : n \in 1..MaxLines}

ParseFiles ==
    {FileLinkedParcel, FileShortParcel, FileLegacyParcel, FileLegacyOverPoint,
     FileLegacyOverTags, FileLegacyShort, FileBrokenPoints, FileEmptyField,
     FileNegativeCount, FileThreeFieldParcel, FileSharedKey, FileTwoParcels}
        \cup GeneratedFiles

\* load_sim_points up to the loop: the lists are emptied, the file is read
OpenSimFile(file) ==
    /\ ~loading
    /\ sim_points' = << >>
    /\ landparcel_data' = << >>
    /\ lines' = file
    /\ cursor' = 0
    /\ loading' = TRUE
    /\ UNCHANGED <<photos_tree, photo_gps_data, settings, frame, reports>>

\* one iteration of "while i < len(lines)"
ParseLine ==
    /\ loading
    /\ cursor < Len(lines)
    /\ LET res == Iteration(lines, cursor, sim_points, landparcel_data)
       IN  /\ sim_points' = res.sim_points
           /\ landparcel_data' = res.landparcel_data
           /\ cursor' = res.i
    /\ UNCHANGED <<lines, loading, photos_tree, photo_gps_data, settings, frame,
                   reports>>

\* load_sim_points after the loop: the frame is classified, the zone
\* inferred; load_sim_file then shows "N点の測量点を読み込みました"
CloseSimFile ==
    /\ loading
    /\ cursor >= Len(lines)
    /\ loading' = FALSE
    /\ sim_load_message' = "success"
    /\ IF DetectCoordinateSystemType(sim_points)
       THEN /\ use_arbitrary_coordinates' = TRUE
            /\ use_gps_conversion' = FALSE
            /\ UNCHANGED coordinate_system
       ELSE /\ use_arbitrary_coordinates' = FALSE
            /\ use_gps_conversion' = TRUE
            /\ coordinate_system' =
                  IF DetectCoordinateSystemNumber(sim_points) # 0
                  THEN DetectCoordinateSystemNumber(sim_points)
                  ELSE coordinate_system
    /\ UNCHANGED <<sim_points, landparcel_data, lines, cursor, photos_tree,
                   photo_gps_data, settings, export_report>>

ParseNext ==
    \/ \E file \in ParseFiles : OpenSimFile(file)
    \/ ParseLine
    \/ CloseSimFile

ParseSpec == Init /\ [][ParseNext]_vars

\* a line that is a well-formed point record: tag, id, name, numeric x and y,
\* and a z that is absent, empty or numeric
ValidPointRecord(parts) ==
    /\ HasTag(parts, "A01")
    /\ Len(parts) >= 5
    /\ IsNumber(parts[4])
    /\ IsNumber(parts[5])
    /\ Len(parts) > 5 => (Strip(parts[6]) = "" \/ IsNumber(parts[6]))

\* C18: when a file has been read to its end, the number of parsed points is
\* the number of well-formed point records of the file, wherever they stand,
\* also between a D00 record and its D99 terminator.
PointCountIsRecordCount ==
    (~loading /\ lines # << >>) =>
       Len(sim_points) =
          Cardinality({k \in 1..Len(lines) : ValidPointRecord(lines[k])})

\* C19: every iteration of the parse loop moves the index forward, so the
\* loop ends on every finite file; a point record with an empty or
\* unparsable x or y is skipped and the index moves to the next line.
CursorAdvances ==
    (loading /\ cursor < Len(lines)) =>
       /\ Iteration(lines, cursor, sim_points, landparcel_data).i > cursor
       /\ (HasTag(lines[cursor + 1], "A01") /\ ~ValidPointRecord(lines[cursor + 1])) =>
             /\ Iteration(lines, cursor, sim_points, landparcel_data).i = cursor + 1
             /\ Iteration(lines, cursor, sim_points, landparcel_data).sim_points
                   = sim_points

\* C20: the iteration on a legacy parcel record (A02) with point_count = k
\* moves the index over the record and the k lines after it, whatever those
\* lines hold, so that none of them is read as a record of its own.
LegacyParcelConsumesLines ==
    [][(/\ ParseLine
        /\ HasTag(lines[cursor + 1], "A02")
        /\ Len(lines[cursor + 1]) >= 4
        /\ IsNumber(lines[cursor + 1][4])
        /\ NumberOf(lines[cursor + 1][4]) >= 0) =>
          cursor' = cursor + NumberOf(lines[cursor + 1][4]) + 1]_vars

\* the line after the block that the D00 record at line d opens: the first
\* D99 or D00 line after it, or the line after the last
RECURSIVE BlockEnd(_, _)
BlockEnd(ls, k) ==
    IF k > Len(ls) THEN k
    ELSE IF HasTag(ls[k], "D99") \/ HasTag(ls[k], "D00") THEN k
    ELSE BlockEnd(ls, k + 1)

\* the B01 lines of the block of the D00 record at line d
References(ls, d) ==
    {k \in (d + 1)..(BlockEnd(ls, d + 1) - 1) :
        HasTag(ls[k], "B01") /\ Len(ls[k]) >= 2}

RefId(parts) == Strip(parts[2])
RefName(parts) == IF Len(parts) > 2 THEN Strip(parts[3]) ELSE ""

\* the points a reference stands for: those with its id, and only when there
\* is none those with its name
Referents(points, parts) ==
    LET by_id == {k \in 1..Len(points) : points[k].num = RefId(parts)}
        by_name == {k \in 1..Len(points) :
                      RefName(parts) # "" /\ points[k].name = RefName(parts)}
    IN  IF by_id # {} THEN by_id ELSE by_name

\* the references of the block that resolve against the points
Resolving(ls, d, points) ==
    {k \in References(ls, d) : Referents(points, ls[k]) # {}}

\* the iteration at the current line is on a D00 record
AtLinkedParcel ==
    /\ ParseLine
    /\ HasTag(lines[cursor + 1], "D00")

\* C21: the iteration on a D00 record adds the parcel to the parcel list
\* exactly when at least 3 B01 references of its block resolve, with one
\* coordinate for each resolving reference and none for C03 lines or
\* unresolved references; the block ends at the first D99 or next D00 line.
LinkedParcelRetained ==
    [][AtLinkedParcel =>
          LET n == Cardinality(Resolving(lines, cursor + 1, sim_points))
          IN  IF n >= 3
              THEN /\ Len(landparcel_data') = Len(landparcel_data) + 1
                   /\ Len(landparcel_data'[Len(landparcel_data')].zahyo) = n
                   /\ cursor' = BlockEnd(lines, cursor + 2) - 1
              ELSE landparcel_data' = landparcel_data]_vars

\* the elements of a set of line numbers, in ascending order
Ascending(S) ==
    CHOOSE seq \in [1..Cardinality(S) -> S] :
        \A a, b \in 1..Cardinality(S) : a < b => seq[a] < seq[b]

\* C22: the coordinates of a retained linked parcel are those of its
\* resolving references in line order, each resolved against the points
\* parsed before the D00 record: the point with the reference's id, and only
\* when no point has that id a point with the reference's name.
ReferenceResolution ==
    [][(AtLinkedParcel /\ Len(landparcel_data') = Len(landparcel_data) + 1) =>
          LET zahyo == landparcel_data'[Len(landparcel_data')].zahyo
              refs == Ascending(Resolving(lines, cursor + 1, sim_points))
          IN  /\ Len(zahyo) = Len(refs)
              /\ \A j \in 1..Len(refs) :
                    \E k \in Referents(sim_points, lines[refs[j]]) :
                        zahyo[j] = <<sim_points[k].X, sim_points[k].Y>>]_vars

\* the control point an A01 line describes
PointOfLine(parts) ==
    Point(Strip(parts[2]), Strip(parts[3]), NumberOf(parts[4]), NumberOf(parts[5]))

\* the lines after the A02 record at line a that hold a coordinate pair
PairLines(ls, a, point_count) ==
    {k \in (a + 1)..(a + point_count) : k <= Len(ls) /\ Len(ls[k]) >= 2}

\* the points whose id or name is the id or the name of a reference
Named(points, parts) ==
    {k \in 1..Len(points) :
        \/ points[k].num \in {RefId(parts)} \cup ({RefName(parts)} \ {""})
        \/ points[k].name \in ({RefId(parts)} \cup {RefName(parts)}) \ {""}}

\* the coordinates of the parcel an iteration appended are in line order
ParcelInLineOrder(ls, index, points, parcel) ==
    IF HasTag(ls[index + 1], "A02")
    THEN LET pairs == Ascending(PairLines(ls, index + 1, NumberOf(ls[index + 1][4])))
         IN  /\ Len(parcel.zahyo) = Len(pairs)
             /\ \A j \in 1..Len(pairs) :
                   parcel.zahyo[j] = <<NumberOf(ls[pairs[j]][2]),
                                       NumberOf(ls[pairs[j]][1])>>
    ELSE LET refs == Ascending({k \in References(ls, index + 1) :
                                   Named(points, ls[k]) # {}})
         IN  /\ HasTag(ls[index + 1], "D00")
             /\ Len(parcel.zahyo) = Len(refs)
             /\ \A j \in 1..Len(refs) :
                   \E k \in Named(points, ls[refs[j]]) :
                       parcel.zahyo[j] = <<points[k].X, points[k].Y>>

\* C24: the parser keeps the order of the file: an iteration leaves the
\* point list as it is or appends the point of the current A01 line, leaves
\* the parcel list as it is or appends the parcel of the current A02 or D00
\* record, and the coordinates of that parcel follow the order of its
\* coordinate or B01 lines.
ParseKeepsFileOrder ==
    [][ParseLine =>
          /\ \/ sim_points' = sim_points
             \/ /\ HasTag(lines[cursor + 1], "A01")
                /\ sim_points' = Append(sim_points, PointOfLine(lines[cursor + 1]))
          /\ \/ landparcel_data' = landparcel_data
             \/ /\ Len(landparcel_data') = Len(landparcel_data) + 1
                /\ SubSeq(landparcel_data', 1, Len(landparcel_data)) = landparcel_data
                /\ ParcelInLineOrder(lines, cursor, sim_points,
                                     landparcel_data'[Len(landparcel_data')])]_vars

\* C24 witness: a file with three points, three linked parcels and a legacy
\* parcel among them is read to its end, all in the order of the file
ParsedInOrder ==
    /\ ~loading
    /\ lines = FileTwoParcels
    /\ Len(sim_points) = 3
    /\ sim_points[1].num = "1" /\ sim_points[3].num = "3"
    /\ Len(landparcel_data) = 4
    /\ landparcel_data[4].chiban = "LOT-14"
    /\ landparcel_data[1].chiban = "LOT-11"
    /\ landparcel_data[1].zahyo = <<<<20200, 10300>>, <<20100, 10200>>, <<20200, 10200>>>>
    /\ landparcel_data[2].chiban = "LOT-12"
    /\ landparcel_data[3].zahyo = <<<<20200, 10300>>, <<20100, 10200>>>>

\* C28: among the points of a file read to its end no two have the same id
\* and no two have the same non-empty name.
PointKeysUnique ==
    (~loading /\ lines # << >>) =>
       \A a, b \in 1..Len(sim_points) :
           a # b =>
              /\ sim_points[a].num # sim_points[b].num
              /\ sim_points[a].name # "" => sim_points[a].name # sim_points[b].name

\* C23: a load that yields no point ends with a surfaced error, not with the
\* report of a successful load of 0 points.
EmptyLoadFails ==
    [][(CloseSimFile /\ Len(sim_points) = 0) => sim_load_message' = "error"]_vars

-----------------------------------------------------------------------------
(* Photo records *)

\* the original position of every photo is what it was
OriginalsKept ==
    /\ DOMAIN photo_gps_data' = DOMAIN photo_gps_data
    /\ \A f \in DOMAIN photo_gps_data :
          /\ photo_gps_data'[f].has_original = photo_gps_data[f].has_original
          /\ photo_gps_data'[f].original_x_coord = photo_gps_data[f].original_x_coord
          /\ photo_gps_data'[f].original_y_coord = photo_gps_data[f].original_y_coord

\* C25: the original position of a photo is set when the folder is loaded,
\* to the position projected then, and no drop, edit, release or auto-match
\* pass (with its snaps and displacements) changes it.
OriginalPositionSetOnce ==
    [][/\ LoadPhotoFolder =>
             \A f \in DOMAIN photo_gps_data' :
                 /\ photo_gps_data'[f].has_original = photo_gps_data'[f].has_xy
                 /\ photo_gps_data'[f].has_original =>
                       /\ photo_gps_data'[f].original_x_coord = photo_gps_data'[f].x_coord
                       /\ photo_gps_data'[f].original_y_coord = photo_gps_data'[f].y_coord
       /\ LoadPhotoFolder \/ OriginalsKept]_vars

\* C25 witness: a photo that was snapped to a point away from its original
\* position still has that original position
SnappedAwayFromOriginal ==
    \E i \in Rows :
        LET d == photo_gps_data[photos_tree[i].orig]
        IN  /\ d.has_original
            /\ photos_tree[i].matching # ""
            /\ d.x_coord # d.original_x_coord
            /\ d.original_x_coord = Folder[i].lat

-----------------------------------------------------------------------------
(* Export: rename_photos_to_new_folder *)

\* the rows with a new file name, in list order
RenameList(tree) ==
    SelectSeq(tree, LAMBDA values : values.new # "")

\* the counts at the start of an export; backup: the answer to the backup
\* question and what came of it ("none" before any export)
NoReport ==
    [success_count |-> 0, error_list |-> << >>, copied |-> << >>,
     backup |-> "declined"]

\* variant of CopyLoop that gives up at the first file that fails
RECURSIVE CopyLoopAborting(_, _, _, _, _)
CopyLoopAborting(rename_list, k, missing, failing, report) ==
    IF k > Len(rename_list) THEN report
    ELSE IF rename_list[k].orig \in missing \cup failing
    THEN [report EXCEPT !.error_list = Append(@, rename_list[k].orig)]
    ELSE CopyLoopAborting(rename_list, k + 1, missing, failing,
            [report EXCEPT !.success_count = @ + 1,
                           !.copied = Append(@, <<rename_list[k].orig,
                                                  rename_list[k].new>>)])

\* the copy loop from item k on: `missing` are the sources that do not
\* exist, `failing` those whose copy raises
RECURSIVE CopyLoop(_, _, _, _, _)
CopyLoop(rename_list, k, missing, failing, report) ==
    IF k > Len(rename_list) THEN report
    ELSE IF rename_list[k].orig \in missing \cup failing
    THEN CopyLoop(rename_list, k + 1, missing, failing,
            [report EXCEPT !.error_list = Append(@, rename_list[k].orig)])
    ELSE CopyLoop(rename_list, k + 1, missing, failing,
            [report EXCEPT !.success_count = @ + 1,
                           !.copied = Append(@, <<rename_list[k].orig,
                                                  rename_list[k].new>>)])

\* rename_photos_to_new_folder, with the backup declined and an output
\* folder chosen
RenamePhotosToNewFolder(missing, failing) ==
    /\ DOMAIN photo_gps_data # {}
    /\ RenameList(photos_tree) # << >>
    /\ export_report' = CopyLoop(RenameList(photos_tree), 1, missing, failing, NoReport)
    /\ UNCHANGED <<sim_points, photos_tree, photo_gps_data, settings, frame,
                   parser, sim_load_message>>

\* class GPSScanApp defines a method create_backup
CreateBackupDefined == FALSE

\* self.create_backup() raises: the attribute is missing, or making the
\* backup fails (backup_fails)
CreateBackupRaises(backup_fails) ==
    ~CreateBackupDefined \/ backup_fails

\* rename_photos_to_new_folder, with the backup asked for: when
\* create_backup raises, the error is shown and the handler returns; else the
\* export goes on as without a backup
RenameWithBackup(backup_fails, missing, failing) ==
    /\ DOMAIN photo_gps_data # {}
    /\ IF CreateBackupRaises(backup_fails)
       THEN export_report' = [NoReport EXCEPT !.backup = "failed"]
       ELSE /\ RenameList(photos_tree) # << >>
            /\ export_report' = CopyLoop(RenameList(photos_tree), 1, missing, failing,
                                         [NoReport EXCEPT !.backup = "made"])
    /\ UNCHANGED <<sim_points, photos_tree, photo_gps_data, settings, frame,
                   parser, sim_load_message>>

\* the earlier program: column 6 of a row that is not matched, in ASCII:
\* 未マッチング, 範囲外, GPS情報なし, 座標なし
LegacyUnmatched == {"mimatching", "hanigai", "GPS-nashi", "zahyou-nashi"}

\* variant of LegacyTarget that copies under the new file name as it is
LegacyTargetAsNamed(taken, base_new_filename, counter) ==
    base_new_filename

\* the earlier program: the name a copy gets in the output folder when
\* `taken` are the names already there
RECURSIVE LegacyTarget(_, _, _)
LegacyTarget(taken, base_new_filename, counter) ==
    LET ext == SplitExt(base_new_filename)
        name == SubSeq(base_new_filename, 1, Len(base_new_filename) - Len(ext))
        new_filename == IF counter = 0 THEN base_new_filename
                        ELSE name \o "_" \o IntToStr(counter) \o ext
    IN  IF new_filename \in taken
        THEN LegacyTarget(taken, base_new_filename, counter + 1)
        ELSE new_filename

\* the earlier program's loop over the rows from k on: matched rows are
\* copied, a failed copy shows an error box and the loop goes on
RECURSIVE LegacyCopyLoop(_, _, _, _)
LegacyCopyLoop(tree, k, failing, report) ==
    IF k > Len(tree) THEN report
    ELSE IF tree[k].matching \in LegacyUnmatched
    THEN LegacyCopyLoop(tree, k + 1, failing,
            [report EXCEPT !.skipped_count = @ + 1])
    ELSE IF tree[k].orig \in failing
    THEN LegacyCopyLoop(tree, k + 1, failing,
            [report EXCEPT !.error_boxes = Append(@, tree[k].orig)])
    ELSE LET new_filename == LegacyTarget(report.folder, tree[k].new, 0)
         IN  LegacyCopyLoop(tree, k + 1, failing,
                [report EXCEPT !.renamed_count = @ + 1,
                               !.copied = Append(@, <<tree[k].orig, new_filename>>),
                               !.folder = @ \cup {new_filename}])

\* the earlier program's export into an output folder that holds the files
\* `existing` (os.makedirs(..., exist_ok=True))
LegacyRenameInto(tree, failing, existing) ==
    LegacyCopyLoop(tree, 1, failing,
        [renamed_count |-> 0, skipped_count |-> 0, error_boxes |-> << >>,
         copied |-> << >>, folder |-> existing])

\* the earlier program's export into a new output folder
LegacyRename(tree, failing) ==
    LegacyRenameInto(tree, failing, {})

ExportNext ==
    \/ LoadPhotoFolder
    \/ \E net \in Networks : LoadSimFile(net)
    \/ \E photo \in PhotoNames, event \in DropEvents, l \in {Distant, Close} :
          DragDrop(photo, event, l)
    \/ \E photo \in PhotoNames : UnmatchPhoto(photo)
    \/ \E missing, failing \in SUBSET PhotoNames :
          RenamePhotosToNewFolder(missing, failing)
    \/ \E backup_fails \in BOOLEAN, missing, failing \in SUBSET PhotoNames :
          RenameWithBackup(backup_fails, missing, failing)

ExportSpec == Init /\ [][ExportNext]_vars

\* the elements of a sequence
Range(seq) == {seq[k] : k \in 1..Len(seq)}

\* the rows as the earlier program shows them: a row that is not matched
\* carries the marker in column 6 and its own file name as new file name
LegacyRows(tree) ==
    [k \in 1..Len(tree) |->
        IF tree[k].matching = ""
        THEN [tree[k] EXCEPT !.matching = "mimatching", !.new = tree[k].orig]
        ELSE tree[k]]

\* the rows that have a new file name
Named4Export == {i \in Rows : photos_tree[i].new # ""}

\* C26: an export attempts every photo that has a new file name, whatever
\* fails before it: each is copied or listed among the errors, never both,
\* and success count plus error count is the number of those photos.
ExportAttemptsAll ==
    [][\A missing, failing \in SUBSET PhotoNames :
          RenamePhotosToNewFolder(missing, failing) =>
             /\ export_report'.success_count + Len(export_report'.error_list)
                   = Cardinality(Named4Export)
             /\ export_report'.success_count = Len(export_report'.copied)
             /\ \A i \in Named4Export :
                   IF photos_tree[i].orig \in missing \cup failing
                   THEN /\ photos_tree[i].orig \in Range(export_report'.error_list)
                        /\ <<photos_tree[i].orig, photos_tree[i].new>>
                              \notin Range(export_report'.copied)
                   ELSE /\ <<photos_tree[i].orig, photos_tree[i].new>>
                              \in Range(export_report'.copied)
                        /\ photos_tree[i].orig \notin Range(export_report'.error_list)
             /\ LET legacy == LegacyRename(LegacyRows(photos_tree), missing \cup failing)
                IN  /\ legacy.renamed_count + Len(legacy.error_boxes)
                          = Cardinality({i \in Rows : photos_tree[i].matching # ""})
                    /\ \A i \in Rows :
                          photos_tree[i].matching # "" =>
                             \/ photos_tree[i].orig \in Range(legacy.error_boxes)
                             \/ \E c \in Range(legacy.copied) :
                                   c[1] = photos_tree[i].orig]_vars

\* C26 witness: an export over two named photos in which the first failed
\* and the second was copied
ExportWentOn ==
    /\ Cardinality(Named4Export) = 2
    /\ export_report.success_count = 1
    /\ export_report.error_list = <<photos_tree[1].orig>>
    /\ export_report.copied = <<<<photos_tree[2].orig, photos_tree[2].new>>>>

-----------------------------------------------------------------------------
(* Order of the photo list *)

\* the orders in which os.listdir may hand the n files to load_photos
Orders(n) ==
    {p \in [1..n -> 1..n] : \A a, b \in 1..n : a # b => p[a] # p[b]}

\* the photo list with its rows shown in the order p
Shown(tree, p) == [i \in 1..Len(tree) |-> tree[p[i]]]

\* the new file name of every photo of the list
NamesOf(tree) ==
    [f \in {tree[i].orig : i \in 1..Len(tree)} |-> tree[RowOf(tree, f)].new]

\* C27: an Assign (a confirmed drop or a saved edit) applied to the same
\* photo records shown in any other order leaves the same records, the same
\* dictionary and so the same new file name for every photo; two runs over
\* the same photos and the same Assign calls therefore end with the same
\* names, whatever the order of their lists.
AssignIgnoresListOrder ==
    \A p \in Orders(Len(photos_tree)) :
       /\ \A photo \in PhotoNames, event \in DropEvents, l \in {Distant, Close} :
             DropMatches(event) =>
                LET m == sim_points[NearestPoint(sim_points, event.ydata, event.xdata)]
                    d2 == Dist2(m, event.ydata, event.xdata)
                    here == ConfirmLandscape(photos_tree, photo_gps_data, photo, m, d2, l)
                    other == ConfirmLandscape(Shown(photos_tree, p), photo_gps_data,
                                              photo, m, d2, l)
                IN  /\ other.tree = Shown(here.tree, p)
                    /\ other.gps = here.gps
                    /\ NamesOf(other.tree) = NamesOf(here.tree)
       /\ \A photo \in PhotoNames, l \in {Distant, Close, Unknown} :
             SaveEditFinds(photos_tree, photo, l) =>
                LET here == SaveEditResult(photos_tree, photo_gps_data, photo, l)
                    other == SaveEditResult(Shown(photos_tree, p), photo_gps_data,
                                            photo, l)
                IN  /\ SaveEditFinds(Shown(photos_tree, p), photo, l)
                    /\ other.tree = Shown(here.tree, p)
                    /\ other.gps = here.gps
                    /\ NamesOf(other.tree) = NamesOf(here.tree)

\* C27 witness: the photo of the second row lost its name and its point to
\* the photo of the first row, which was assigned after it
LaterRowDisplaced ==
    /\ Len(photos_tree) = 2
    /\ IsDisplacedRow(2)
    /\ photos_tree[1].new # ""
    /\ photos_tree[1].landscape = photos_tree[2].landscape

-----------------------------------------------------------------------------
(* Grammar of the base name *)

\* the name is that of `file` at some identifier of the network in the
\* category l: identifier, "-1" for distant and "-2" otherwise, extension
IsNameIn(name, l, file) ==
    \E id \in Identifiers : name = BaseName(id, l, file)

\* every Assign possible in this state names its photo by the grammar: a
\* confirmed drop and a saved edit in the category chosen, the automatic
\* pass in the close category, and create_filename called with "unknown"
\* (in either program) in the close category
AssignsNameByGrammar ==
    /\ \A photo \in PhotoNames, event \in DropEvents, l \in {Distant, Close} :
          DropMatches(event) =>
             LET m == sim_points[NearestPoint(sim_points, event.ydata, event.xdata)]
                 res == ConfirmLandscape(photos_tree, photo_gps_data, photo, m,
                                         Dist2(m, event.ydata, event.xdata), l)
             IN  IsNameIn(res.tree[RowOf(res.tree, photo)].new, l, photo)
    /\ \A photo \in PhotoNames, l \in {Distant, Close, Unknown} :
          SaveEditFinds(photos_tree, photo, l) =>
             LET res == SaveEditResult(photos_tree, photo_gps_data, photo, l)
             IN  IsNameIn(res.tree[RowOf(res.tree, photo)].new, l, photo)
    /\ \A distance \in Limits, i \in Rows :
          (Len(sim_points) # 0 /\ AutoMatchHits(photo_gps_data, photos_tree[i], distance)) =>
             IsNameIn(AutoMatchResult(photos_tree, photo_gps_data, i).tree[i].new,
                      Close, photos_tree[i].orig)
    /\ \A photo \in PhotoNames, k \in 1..Len(sim_points),
          l \in {Distant, Close, Unknown} :
          /\ IsNameIn(CreateFilename(photos_tree, photo_gps_data,
                                     PreferredIdentifier(sim_points[k]), photo, l,
                                     sim_points[k]).name,
                      l, photo)
          /\ LegacyCreateFilename(PreferredIdentifier(sim_points[k]), photo, l)
                = BaseName(PreferredIdentifier(sim_points[k]), l, photo)

\* C29 as stated: the name given by an Assign is identifier, suffix,
\* extension of the source file, the suffix -1 exactly for the distant
\* category and -2 for the close one, and -2 when the category is unknown.
BaseNameGrammar ==
    AssignsNameByGrammar

\* C29 amended: the same while the setting "use the distant/close suffix"
\* is on.
BaseNameGrammarWithSuffix ==
    use_landscape_suffix => AssignsNameByGrammar

\* C29 witness: with the suffix setting on, one photo holds a distant name
\* and another a close name, each in its own category
BothSuffixesGiven ==
    /\ use_landscape_suffix
    /\ \E i, j \in Rows :
          /\ photos_tree[i].landscape = Distant
          /\ IsNameIn(photos_tree[i].new, Distant, photos_tree[i].orig)
          /\ photos_tree[j].landscape = Close
          /\ IsNameIn(photos_tree[j].new, Close, photos_tree[j].orig)

-----------------------------------------------------------------------------
(* Naming over a network file with a parcel *)

\* a network file with three points and a parcel over them; the first point
\* is 3 m / 4 m off the position zone 1 gives to a.jpg
FileParcelAtPhoto ==
    << A01Line("1", "P1", "20100", "10260"), A01Line("2", "P2", "20200", "10260"),
       A01Line("3", "P3", "20200", "10360"),
       <<"D00", "1", "LOT-20", "1">>,
       B01Line("1", "P1"), B01Line("2", "P2"), B01Line("3", "P3"),
       <<"D99">> >>

\* mouse releases at a.jpg's position and 1 m / 2 m off the second point;
\* display coordinates are (Y, X)
ParcelDropEvents ==
    {[xdata |-> 10264, ydata |-> 20103], [xdata |-> 10262, ydata |-> 20201]}

\* the file is chosen and read, the folder is chosen, and photos are
\* assigned, edited, released and matched by the pass once the file is read
AssignNext ==
    \/ OpenSimFile(FileParcelAtPhoto)
    \/ ParseLine
    \/ CloseSimFile
    \/ LoadPhotos(FolderPlane)
    \/ \E photo \in PhotoNames, event \in ParcelDropEvents, l \in {Distant, Close} :
          ~loading /\ DragDrop(photo, event, l)
    \/ \E photo \in PhotoNames, l \in {Distant, Close} :
          ~loading /\ SaveEdit(photo, l)
    \/ \E photo \in PhotoNames : ~loading /\ UnmatchPhoto(photo)
    \/ \E distance \in Limits : ~loading /\ AutoMatchByGps(distance)

AssignSpec == Init /\ [][AssignNext]_vars

\* C30: a step that is an Assign (a confirmed drop or a saved edit), an
\* Unassign or an automatic pass leaves the list of control points and the
\* list of parcels as they were.
NamingKeepsPointsAndParcels ==
    [][((\E photo \in PhotoNames :
            \/ \E event \in ParcelDropEvents, l \in {Distant, Close} :
                  DragDrop(photo, event, l)
            \/ \E l \in {Distant, Close} : SaveEdit(photo, l)
            \/ UnmatchPhoto(photo))
        \/ \E distance \in Limits : AutoMatchByGps(distance))
          => /\ sim_points' = sim_points
             /\ landparcel_data' = landparcel_data]_vars

\* C30 witness: over the three points and the parcel of the file, one photo
\* is assigned and another was matched by the pass and then released
AssignedOverParcel ==
    /\ ~loading
    /\ Len(sim_points) = 3
    /\ Len(landparcel_data) = 1
    /\ \E i, j \in Rows :
          /\ photos_tree[i].matching # ""
          /\ photos_tree[j].matching = ""
          /\ photos_tree[j].xcol = <<sim_points[1].X>>

-----------------------------------------------------------------------------
(* Naming at a point without a name *)

\* a national-plane network whose first record has an empty name field
\* (A01,K1,,250100,10200), at the coordinates of NetPlane
NetNameless == << Point("K1", "", 250100, 10200),
                  Point("K2", "BM2", 250100, 10260) >>

NamelessNext ==
    \/ ToggleUsePointName
    \/ LoadPhotoFolder
    \/ LoadSimFile(NetNameless)
    \/ \E photo \in PhotoNames, event \in DropEvents, l \in {Distant, Close} :
          DragDrop(photo, event, l)
    \/ \E photo \in PhotoNames, l \in {Distant, Close} : SaveEdit(photo, l)
    \/ \E photo \in PhotoNames : UnmatchPhoto(photo)
    \/ \E distance \in Limits : AutoMatchByGps(distance)

NamelessSpec == Init /\ [][NamelessNext]_vars

\* C31: in every reachable state a photo has a new file name if and only if
\* it has a matching point: load, drop, automatic pass, edit, displacement
\* and release set or clear the two together.
NameIffMatched ==
    \A i \in Rows : (photos_tree[i].new # "") <=> (photos_tree[i].matching # "")

-----------------------------------------------------------------------------
(* Stored identifier and name *)

\* C32: the matching point stored on a photo that has a new file name is the
\* identifier the name begins with: the name is the stored identifier, then
\* the suffix of a category or nothing, then the extension of the file; this
\* holds after a drop, an edit and an automatic pass.
StoredIdentifierIsNamePrefix ==
    \A i \in Rows :
       photos_tree[i].new # "" =>
          \/ \E l \in {Distant, Close} :
                photos_tree[i].new
                   = BaseName(photos_tree[i].matching, l, photos_tree[i].orig)
          \/ photos_tree[i].new
                = photos_tree[i].matching \o SplitExt(photos_tree[i].orig)

-----------------------------------------------------------------------------
(* The automatic pass and the photos matched before it *)

\* C33: an automatic pass leaves every photo that was matched before the
\* pass as it was: the same new file name, matching point, distance and
\* position after the pass as before.
PassKeepsMatched ==
    \A distance \in Limits :
       AutoMatchRuns(distance) =>
          LET res == AutoMatchOutcome(distance)
          IN  \A i \in Rows :
                 photos_tree[i].matching # "" =>
                    /\ res.tree[i].new = photos_tree[i].new
                    /\ res.tree[i].matching = photos_tree[i].matching
                    /\ res.tree[i].distance = photos_tree[i].distance
                    /\ res.gps[photos_tree[i].orig] = photo_gps_data[photos_tree[i].orig]

-----------------------------------------------------------------------------
(* Position of a photo without a matching point *)

\* C34: whenever a photo has no matching point, its position is its original
\* position (none if it had none): the release of a photo takes back the
\* snap to the point, so a later automatic pass measures from the GPS
\* position.
UnmatchedAtOriginal ==
    \A i \in Rows :
       (photos_tree[i].matching = "" /\ photos_tree[i].orig \in DOMAIN photo_gps_data)
          => AtOriginalPosition(photo_gps_data[photos_tree[i].orig])

-----------------------------------------------------------------------------
(* Zone of the positions at the time of a pass *)

\* C35: whenever the automatic pass can run, the projected position every
\* photo was given at load is the projection of its GPS position in the zone
\* selected now, whether the photos or the network file were loaded first.
PositionsInSelectedZone ==
    (\E distance \in Limits : AutoMatchRuns(distance)) =>
       \A f \in DOMAIN photo_gps_data :
          photo_gps_data[f].has_original =>
             <<photo_gps_data[f].original_x_coord, photo_gps_data[f].original_y_coord>>
                = Project(photo_gps_data[f].lat, photo_gps_data[f].lon, coordinate_system)

-----------------------------------------------------------------------------
(* The zones that the inference can return *)

\* the edges of the boxes of system_ranges, a value between every two
\* neighbouring edges and a value beyond the outermost ones: the inference
\* depends on the mean only through its place among the edges
ZoneXs == {-260000, -250000, -225000, -200000, -175000, -150000, -50000, 50000,
           100000, 150000, 175000, 200000, 210000}
ZoneYs == {-210000, -200000, -175000, -150000, 0, 100000, 125000, 150000,
           175000, 200000, 210000}

\* a national-plane network of two points for every such mean
ZoneNetworks == {NetMean(x, y) : x \in ZoneXs, y \in ZoneYs}

ZoneNext ==
    \E net \in ZoneNetworks : LoadSimFile(net)

ZoneSpec == Init /\ [][ZoneNext]_vars

\* C36: for every zone id k of 1..19 there is a national-plane point set for
\* which detect_coordinate_system_number returns k: the network that is
\* loaded, or another one.
EveryZoneInferred ==
    \A k \in 1..19 :
       \/ ~DetectCoordinateSystemType(sim_points)
             /\ DetectCoordinateSystemNumber(sim_points) = k
       \/ \E net \in ZoneNetworks :
             ~DetectCoordinateSystemType(net) /\ DetectCoordinateSystemNumber(net) = k

-----------------------------------------------------------------------------
(* Export after the backup question *)

\* C37: answering yes to the backup question does not prevent the export:
\* when making the backup does not fail and some photo has a new file name,
\* the copy phase is run over every such photo; the export stops before it
\* only when making the backup fails.
BackupAllowsExport ==
    [][\A missing, failing \in SUBSET PhotoNames :
          (RenameWithBackup(FALSE, missing, failing) /\ RenameList(photos_tree) # << >>)
             => /\ export_report'.backup = "made"
                /\ export_report'.success_count + Len(export_report'.error_list)
                      = Len(RenameList(photos_tree))]_vars

-----------------------------------------------------------------------------
(* The earlier program: export with repeated new file names *)

\* the photo files of the folder, in os.listdir order
LegacyFolder == <<"a.jpg", "b.jpg", "c.jpg">>

\* the categories classify_landscape gives to the three files
LegacyClasses == {<<Close, Close, Close>>, <<Distant, Close, Close>>}

\* the files that may be in the output folder before the export
LegacyExisting == {{}, {"K1-2.jpg"}, {"K1-2.jpg", "K1-2_1.jpg"}}

\* load_photos of the earlier program: the row of a file, with the category
\* classify_landscape gave it; the new file name is the file's own
LegacyRow(file, landscape_type) ==
    [orig |-> file, new |-> file, landscape |-> landscape_type,
     xcol |-> << >>, ycol |-> << >>, matching |-> "mimatching", distance |-> << >>]

LegacyLoadPhotos(classes) ==
    /\ photos_tree' = [k \in 1..Len(LegacyFolder) |->
                          LegacyRow(LegacyFolder[k], classes[k])]
    /\ photo_gps_data' = << >>
    /\ UNCHANGED <<sim_points, settings, frame, parser, reports>>

\* load_sim_points of the earlier program: the points of the file
LegacyLoadSimPoints(net) ==
    /\ sim_points' = net
    /\ UNCHANGED <<photos_tree, photo_gps_data, settings, frame, parser, reports>>

\* on_point_drop_photo: the photo dragged from the list is dropped on point k
\* of the point list
LegacyDropPhoto(photo, k) ==
    /\ photo \in PhotoNames
    /\ k \in 1..Len(sim_points)
    /\ LET r == RowOf(photos_tree, photo)
           identifier == PreferredIdentifier(sim_points[k])
       IN  photos_tree' =
              [photos_tree EXCEPT ![r] =
                  [@ EXCEPT !.new = LegacyCreateFilename(identifier, photo,
                                                              photos_tree[r].landscape),
                            !.matching = identifier]]
    /\ UNCHANGED <<sim_points, photo_gps_data, settings, frame, parser, reports>>

\* rename_photos_to_new_folder of the earlier program; `failing` are the
\* photos whose copy raises, `existing` the files already in the folder
LegacyRenamePhotos(failing, existing) ==
    /\ Len(photos_tree) # 0
    /\ export_report' = LegacyRenameInto(photos_tree, failing, existing)
    /\ UNCHANGED <<sim_points, photos_tree, photo_gps_data, settings, frame,
                   parser, sim_load_message>>

LegacyNext ==
    \/ \E classes \in LegacyClasses : LegacyLoadPhotos(classes)
    \/ LegacyLoadSimPoints(NetPlane)
    \/ \E photo \in PhotoNames, k \in 1..2 : LegacyDropPhoto(photo, k)
    \/ \E failing \in SUBSET PhotoNames, existing \in LegacyExisting :
          LegacyRenamePhotos(failing, existing)

LegacySpec == Init /\ [][LegacyNext]_vars

\* the name with the counter c before the extension
Counted(base_new_filename, c) ==
    LET ext == SplitExt(base_new_filename)
    IN  SubSeq(base_new_filename, 1, Len(base_new_filename) - Len(ext))
           \o "_" \o IntToStr(c) \o ext

\* C38: in the earlier program an export never writes two photos to the same
\* destination name nor onto a file of the output folder: a photo whose new
\* file name is there already is copied under the name with the first free
\* counter _1, _2, ..., the search ends, and the files the folder gains are
\* as many as the photos copied (in a new folder: the files of the folder).
LegacyExportUnique ==
    \A failing \in SUBSET PhotoNames, existing \in LegacyExisting :
       LET r == LegacyRenameInto(photos_tree, failing, existing)
           n == Len(r.copied)
       IN  /\ \A a, b \in 1..n : a # b => r.copied[a][2] # r.copied[b][2]
           /\ \A a \in 1..n : r.copied[a][2] \notin existing
           /\ \A a \in 1..n :
                 LET base == photos_tree[RowOf(photos_tree, r.copied[a][1])].new
                     before == existing \cup {r.copied[b][2] : b \in 1..(a - 1)}
                 IN  \/ r.copied[a][2] = base /\ base \notin before
                     \/ \E c \in 1..(Cardinality(before)) :
                           /\ r.copied[a][2] = Counted(base, c)
                           /\ base \in before
                           /\ \A d \in 1..(c - 1) : Counted(base, d) \in before
           /\ r.renamed_count = n
           /\ r.folder = existing \cup {r.copied[a][2] : a \in 1..n}
           /\ Cardinality(r.folder) = Cardinality(existing) + r.renamed_count
           /\ existing = {} => Cardinality(r.folder) = r.renamed_count

\* C38 witness: three photos with the same new file name were exported into
\* a new folder, the second and third under the counters _1 and _2
LegacyCountersGiven ==
    /\ Len(photos_tree) = 3
    /\ \A k \in 1..3 : photos_tree[k].new = "K1-2.jpg"
    /\ "folder" \in DOMAIN export_report
    /\ export_report.renamed_count = 3
    /\ export_report.folder = {"K1-2.jpg", "K1-2_1.jpg", "K1-2_2.jpg"}
    /\ export_report.copied[3] = <<"c.jpg", "K1-2_2.jpg">>

====
